---- MODULE Spec2Model ----
(***************************************************************************)
(* TrainingRunner (orttraining/models/runner/training_runner.cc): the      *)
(* training loop, its worker pool of session executions, evaluation, and   *)
(* the feeds built for every session run.                                  *)
(*                                                                         *)
(* The main thread is a sequential program whose position is pc; every     *)
(* std::thread launched into pipeline_worker_pool_.workers is a concurrent *)
(* execution that finishes at a time of its own choosing.                  *)
(***************************************************************************)
EXTENDS Integers, Sequences, FiniteSets, TLC

(* ------------------------------------------------------------------ *)
(* Bounds of the explored configurations                              *)
(* ------------------------------------------------------------------ *)
MaxTrainSteps == 4
MaxAccum == 2
MaxStages == 2

\* batches a loaded training shard can hold, and the number of shards
BatchCounts == {1, 2}
ShardCounts == {1, 2}

(* ------------------------------------------------------------------ *)
(* Names                                                              *)
(* ------------------------------------------------------------------ *)
\* the eight event tensors of pipeline_context_, in the order they are fed
EventKinds ==
  << "forward_waited_event", "forward_waited_event_after_recv",
     "forward_recorded_event_before_send", "forward_recorded_event",
     "backward_waited_event", "backward_waited_event_after_recv",
     "backward_recorded_event_before_send", "backward_recorded_event" >>

EventKindSet == { EventKinds[i] : i \in 1..Len(EventKinds) }

ModelUpdateStep == "ModelUpdateStep"
GradientAccumulateStep == "GradientAccumulateStep"
EvaluateStep == "EvaluateStep"

VARIABLES
  params_,                    \* Parameters
  pipeline_context_,          \* PipelineContext
  loss_scaler_,               \* LossScaler, or absent without mixed precision
  shards,                     \* the training loader's shards
  step_, round_, weight_update_step_count_, training_data_set_index_,
  gradient_accumulation_step_count,
  pc,                         \* position of the main thread
  shard_it, batch, is_weight_update_step,
  train_cursor,               \* training loader: index of the current data set
  workers,                    \* pipeline_worker_pool_.workers
  worker_states,              \* pipeline_worker_pool_.worker_states
  status,                     \* the Status a synchronous launch writes
  prepared,                   \* feed_names/feeds/fetch_names of the next launch
  main_run,                   \* session.Run executing on the main thread
  batch_idx, eval_return,     \* Evaluate's loop index and where it returns to
  current_batch,              \* Evaluate's static cursor into the test data
  test_cursor,                \* test loader: index of the current data set
  callbacks,                  \* calls of params_.error_function so far
  process,                    \* "running", or how the run ended
  properties,                 \* checkpointed_properties: name -> string
  saved_from,                 \* the runner state the properties were saved from
  load_status,                \* Status of the last LoadCheckpointProperties
  checkpoint_registry_,       \* CheckpointRegistry, or absent
  checkpoint_loaded,          \* the checkpoint Initialize loaded, 0 for none
  disk,                       \* the checkpoint directories of the file system
  updates                     \* the caller's UpdateParams calls still to come

vars ==
  << params_, pipeline_context_, loss_scaler_, shards,
     step_, round_, weight_update_step_count_, training_data_set_index_,
     gradient_accumulation_step_count, pc, shard_it, batch,
     is_weight_update_step, train_cursor, workers, worker_states, status,
     prepared, main_run, batch_idx, eval_return, current_batch,
     test_cursor, callbacks, process, properties, saved_from, load_status,
     checkpoint_registry_, checkpoint_loaded, disk, updates >>

(* ------------------------------------------------------------------ *)
(* Collaborators that live outside training_runner.cc                 *)
(* ------------------------------------------------------------------ *)
\* LossScaler policy: growth interval, floor and ceiling of the scale
up_scale_window == 2
min_loss_scale == 1
max_loss_scale == 262144

\* LossScaler::UpdateLossScale
UpdateLossScale(ls, is_all_finite) ==
  IF ~ls.is_dynamic THEN ls
  ELSE IF ~is_all_finite
    THEN [ls EXCEPT !.loss_scale = IF (ls.loss_scale \div 2) < min_loss_scale
                                      THEN min_loss_scale
                                      ELSE ls.loss_scale \div 2,
                    !.stable_steps = 0]
    ELSE IF ls.stable_steps + 1 >= up_scale_window
      THEN [ls EXCEPT !.loss_scale = IF ls.loss_scale * 2 > max_loss_scale
                                        THEN max_loss_scale
                                        ELSE ls.loss_scale * 2,
                      !.stable_steps = 0]
      ELSE [ls EXCEPT !.stable_steps = ls.stable_steps + 1]

\* LossScaler::GetLossScale
GetLossScale(ls) == ls.loss_scale

\* position of an event kind in EventKinds
KindIndex(kind) == CHOOSE i \in 1..Len(EventKinds) : EventKinds[i] = kind

\* PipelineSchedule::Get<Kind>EventId(stage, batch): one id per
\* (stage, micro-batch slot, kind), never negative
ScheduleEventId(kind, stage_id, batch_id) ==
  (batch_id * params_.pipeline_parallel_size + stage_id) * Len(EventKinds) + (KindIndex(kind) - 1)

\* IDataLoader of the training data
NumShards == Len(shards)
CurrentDataSetLoaded == shards[train_cursor + 1].loaded
TotalBatch == shards[train_cursor + 1].batches
MoveToNextDataSet(cursor, n) == (cursor + 1) % n

\* the test data: batches of each test shard
TestShards == << 2, 1 >>
TestTotalBatch(cursor) == TestShards[cursor + 1]

\* tensor names of the data loaders, of the loss scaler and of the learning rate
DataSetTensorNames == << "input", "label" >>
LossScaleInputName == "loss_scale"
LearningRateFeedName == "lr"

\* OptimizerOutputKey -> graph output name (opt_graph_outputs_)
opt_graph_outputs_ ==
  [ GradientAllIsFinite |-> "all_finite",
    GradientAccumulation |-> "grad_accum",
    DeltaAllIsFinite |-> "delta_all_finite" ]

\* PipelineWorkerPool::Join blocks until the slot's thread has finished
JoinReturns(ws, worker_id) == ws[worker_id].state # "running"

\* PipelineWorkerPool::Join: afterwards the slot holds no thread
Join(ws, worker_id) == [ws EXCEPT ![worker_id].state = "idle"]

\* PipelineWorkerPool::JoinAll blocks until every slot's thread has finished
JoinAllReturns(ws) == \A w \in DOMAIN ws : ws[w].state # "running"

\* a JoinAll that waits for the threads and leaves them in their slots
JoinAll_ThreadsKept(ws) == ws

\* PipelineWorkerPool::JoinAll: afterwards no slot holds a thread
JoinAll(ws) == [w \in DOMAIN ws |-> [ws[w] EXCEPT !.state = "idle"]]

\* the elements of a set of steps in increasing order
RECURSIVE SortedSeq(_)
SortedSeq(S) ==
  IF S = {} THEN << >>
  ELSE LET m == CHOOSE x \in S : \A y \in S : x <= y
       IN << m >> \o SortedSeq(S \ {m})

\* CheckpointRegistry::CheckpointRegistry: the entries are the checkpoint
\* directories found on the disk, ordered by their step
CheckpointRegistry(dirs, max_num_checkpoints) ==
  [present |-> TRUE, max_num_checkpoints |-> max_num_checkpoints,
   checkpoints |-> SortedSeq(dirs)]

\* CheckpointRegistry::TryGetLatestCheckpoint
TryGetLatestCheckpoint(reg) ==
  [found |-> reg.checkpoints # << >>,
   path |-> IF reg.checkpoints # << >>
              THEN reg.checkpoints[Len(reg.checkpoints)] ELSE 0]

\* the steps of a sequence of entries
EntrySteps(entries) == { entries[i] : i \in 1..Len(entries) }

\* an entry list that grows at its end, whatever the step
InsertEntry_AtEnd(entries, step) == Append(entries, step)

\* the entry list with a new entry, kept ordered by step
InsertEntry(entries, step) == SortedSeq(EntrySteps(entries) \cup {step})

\* CheckpointRegistry::AddCheckpoint, its Status: a step that already has an
\* entry is refused
AddCheckpointStatus(reg, step) ==
  IF step \in EntrySteps(reg.checkpoints) THEN "error" ELSE "ok"

\* CheckpointRegistry::AddCheckpoint: the entry is added, and beyond the
\* capacity the oldest entry is dropped and its path handed back
AddCheckpoint(reg, step) ==
  LET entries == InsertEntry(reg.checkpoints, step)
      evict == Len(entries) > reg.max_num_checkpoints
  IN [registry |-> [reg EXCEPT !.checkpoints =
                       IF evict THEN Tail(entries) ELSE entries],
      new_checkpoint_path |-> step,
      should_remove_old_checkpoint |-> evict,
      old_checkpoint_path |-> IF evict THEN Head(entries) ELSE 0]

(* ------------------------------------------------------------------ *)
(* Feeds and fetches of one session run                               *)
(* ------------------------------------------------------------------ *)
SeqToSet(s) == { s[i] : i \in 1..Len(s) }

\* a name is fed when there is no pipeline or the stage allows it
FeedAllowed(name) ==
  \/ params_.pipeline_parallel_size = 1
  \/ name \in pipeline_context_.feed_names

\* a loss scale taken from the scaler in every mode
LossScaleFeed_IgnoreMode(mode) == GetLossScale(loss_scaler_)

\* the loss scale fed in a mode
LossScaleFeed(mode) ==
  IF mode = EvaluateStep THEN 1 ELSE GetLossScale(loss_scaler_)

\* the learning rate fed: 0 without a scheduler, else the scheduler's rate
\* for step_ + 1 (the rate is identified with the step it is asked for)
LearningRateFeed(has_lr_scheduler) ==
  IF has_lr_scheduler THEN step_ + 1 ELSE 0

\* an event id that consults the schedule in every mode
EventIdFeed_IgnoreMode(mode, kind) ==
  ScheduleEventId(kind, pipeline_context_.pipeline_stage_id,
                  step_ % pipeline_context_.num_pipeline_batches)

\* an event id indexed by the step itself, not by its micro-batch slot
EventIdFeed_NoModulo(mode, kind) ==
  IF mode = EvaluateStep
    THEN -1
    ELSE ScheduleEventId(kind, pipeline_context_.pipeline_stage_id, step_)

\* the id fed for one event kind
EventIdFeed(mode, kind) ==
  IF mode = EvaluateStep
    THEN -1
    ELSE ScheduleEventId(kind, pipeline_context_.pipeline_stage_id,
                         step_ % pipeline_context_.num_pipeline_batches)

\* the names PrepareFeedNamesAndFeeds feeds
FeedNames(mode) ==
  { n \in SeqToSet(DataSetTensorNames) : FeedAllowed(n) }
  \cup (IF loss_scaler_.present /\ FeedAllowed(LossScaleInputName)
          THEN {LossScaleInputName} ELSE {})
  \cup (IF FeedAllowed(LearningRateFeedName) THEN {LearningRateFeedName} ELSE {})
  \cup pipeline_context_.event_names

\* PrepareFeedNamesAndFeeds fails when an event name exists without a pipeline
PrepareFeedStatus(mode) ==
  IF pipeline_context_.event_names # {} /\ params_.pipeline_parallel_size <= 1
    THEN "error" ELSE "ok"

\* PrepareFeedNamesAndFeeds: name -> value fed; a data tensor is identified
\* with the index of the batch it is taken from
PrepareFeedNamesAndFeeds(mode, has_lr_scheduler, batch_index) ==
  [ n \in FeedNames(mode) |->
      IF n \in SeqToSet(DataSetTensorNames) THEN batch_index
      ELSE IF n = LossScaleInputName THEN LossScaleFeed(mode)
      ELSE IF n = LearningRateFeedName THEN LearningRateFeed(has_lr_scheduler)
      ELSE EventIdFeed(mode, n) ]

\* the subsequence of s whose elements satisfy membership in keep
RECURSIVE FilterSeq(_, _)
FilterSeq(s, keep) ==
  IF s = << >> THEN << >>
  ELSE (IF Head(s) \in keep THEN << Head(s) >> ELSE << >>)
       \o FilterSeq(Tail(s), keep)

\* the non-empty ones of the four pipeline event output names
PipelineOutputNames == pipeline_context_.output_names

\* the user's fetch names taken as they are, whatever the stage produces
StageFetchNames_Unfiltered == params_.fetch_names

\* filter out fetches which are not in this pipeline stage
StageFetchNames ==
  FilterSeq(params_.fetch_names, SeqToSet(pipeline_context_.fetch_names))

\* accumulation fetches that also ask for the user's outputs
AccumulateFetchNames_WithUserOutputs ==
  (IF params_.gradient_accumulation_steps > 1
     THEN << opt_graph_outputs_.GradientAccumulation >> ELSE << >>)
  \o (IF params_.pipeline_parallel_size # 0 THEN PipelineOutputNames ELSE << >>)
  \o params_.fetch_names

\* the tensors fetched when doing gradient accumulation
AccumulateFetchNames ==
  (IF params_.gradient_accumulation_steps > 1
     THEN << opt_graph_outputs_.GradientAccumulation >> ELSE << >>)
  \o (IF params_.pipeline_parallel_size # 0 THEN PipelineOutputNames ELSE << >>)

\* the mode's fetch names, before the "fetch at least one" fallback
ModeFetchNames(mode) ==
  IF mode = ModelUpdateStep THEN
    IF params_.pipeline_parallel_size > 1
      THEN StageFetchNames
      ELSE params_.fetch_names
           \o (IF params_.use_mixed_precision
                 THEN << opt_graph_outputs_.GradientAllIsFinite >>
                      \o (IF params_.use_adasum
                            THEN << opt_graph_outputs_.DeltaAllIsFinite >>
                            ELSE << >>)
                 ELSE << >>)
  ELSE IF mode = GradientAccumulateStep THEN AccumulateFetchNames
  ELSE
    IF params_.pipeline_parallel_size > 1
      THEN StageFetchNames
      ELSE params_.fetch_names

\* PrepareFetchNamesAndFetches
PrepareFetchNamesAndFetches(mode) ==
  IF ModeFetchNames(mode) = << >>
    THEN pipeline_context_.fetch_names
    ELSE ModeFetchNames(mode)

(* ------------------------------------------------------------------ *)
(* Checkpoint properties                                              *)
(* ------------------------------------------------------------------ *)
\* property_names
k_step == "step"
k_round == "round"
k_weight_update_step == "weight_update_step"
k_training_data_set_index == "training_data_set_index"
k_loss_scaler_state == "loss_scaler_state"

CounterPropertyNames ==
  { k_step, k_round, k_weight_update_step, k_training_data_set_index }

\* a std::string is the sequence of its characters
Digits == << "0", "1", "2", "3", "4", "5", "6", "7", "8", "9" >>
DigitSet == SeqToSet(Digits)
DigitValue(c) == (CHOOSE i \in 1..Len(Digits) : Digits[i] = c) - 1

\* std::to_string of an unsigned value: its decimal digits
RECURSIVE to_string(_)
to_string(val) ==
  IF val < Len(Digits)
    THEN << Digits[val + 1] >>
    ELSE to_string(val \div Len(Digits)) \o << Digits[(val % Len(Digits)) + 1] >>

\* operator>> first skips the leading white space
RECURSIVE SkipWs(_)
SkipWs(s) ==
  IF s # << >> /\ Head(s) = " " THEN SkipWs(Tail(s)) ELSE s

\* operator>> into an unsigned value: the longest run of digits is read;
\* count is the number of digits read and rest what stays in the stream
RECURSIVE ReadDigits(_, _, _)
ReadDigits(s, acc, count) ==
  IF s # << >> /\ Head(s) \in DigitSet
    THEN ReadDigits(Tail(s), (acc * Len(Digits)) + DigitValue(Head(s)), count + 1)
    ELSE [value |-> acc, count |-> count, rest |-> s]

\* a FromString that accepts whatever follows the number
FromString_NoEofCheck(s) ==
  LET r == ReadDigits(SkipWs(s), 0, 0)
  IN [ok |-> r.count > 0, value |-> r.value]

\* FromString: i >> t && i.eof(). The value is written to t also when the
\* Status is an error: 0 when no digit could be read
FromString(s) ==
  LET r == ReadDigits(SkipWs(s), 0, 0)
  IN [ok |-> r.count > 0 /\ r.rest = << >>, value |-> r.value]

\* LossScaler::SaveToString: the scale and the count of steps without overflow
SaveToString(ls) ==
  to_string(ls.loss_scale) \o << " " >> \o to_string(ls.stable_steps)

\* LossScaler::LoadFromString: both numbers are read, or nothing is changed
LoadFromString(ls, s) ==
  LET a == ReadDigits(SkipWs(s), 0, 0)
      b == ReadDigits(SkipWs(a.rest), 0, 0)
  IN IF a.count > 0 /\ b.count > 0 /\ b.rest = << >>
       THEN [ok |-> TRUE,
             ls |-> [ls EXCEPT !.loss_scale = a.value, !.stable_steps = b.value]]
       ELSE [ok |-> FALSE, ls |-> ls]

\* the runner's state that a checkpoint's properties hold
Snapshot ==
  [valid |-> TRUE, step |-> step_, round |-> round_,
   weight_update_step |-> weight_update_step_count_,
   training_data_set_index |-> training_data_set_index_,
   loss_scale |-> loss_scaler_.loss_scale,
   stable_steps |-> loss_scaler_.stable_steps]

\* TrainingRunner::SaveCheckpointProperties
SaveCheckpointProperties ==
  [ k \in CounterPropertyNames
          \cup (IF loss_scaler_.present THEN {k_loss_scaler_state} ELSE {}) |->
      IF k = k_step THEN to_string(step_)
      ELSE IF k = k_round THEN to_string(round_)
      ELSE IF k = k_weight_update_step THEN to_string(weight_update_step_count_)
      ELSE IF k = k_training_data_set_index
        THEN to_string(training_data_set_index_)
      ELSE SaveToString(loss_scaler_) ]

\* load_property: find the name, then FromString into the member
load_property(props, name, val) ==
  IF name \notin DOMAIN props
    THEN [ok |-> FALSE, value |-> val]
    ELSE FromString(props[name])

\* the members after LoadCheckpointProperties returned at its n-th step
LoadedThrough(n, st, s, r, w, d, ls) ==
  [status |-> st,
   step |-> IF n >= 1 THEN s.value ELSE step_,
   round |-> IF n >= 2 THEN r.value ELSE round_,
   weight_update_step |-> IF n >= 3 THEN w.value ELSE weight_update_step_count_,
   training_data_set_index |->
     IF n >= 4 THEN d.value ELSE training_data_set_index_,
   loss_scaler |-> IF n >= 5 THEN ls ELSE loss_scaler_]

\* a load that forgets the index of the training data set
LoadCheckpointProperties_NoDataSetIndex(props) ==
  LET s == load_property(props, k_step, step_)
      r == load_property(props, k_round, round_)
      w == load_property(props, k_weight_update_step, weight_update_step_count_)
      d == [ok |-> k_training_data_set_index \in DOMAIN props,
            value |-> training_data_set_index_]
      l == IF ~loss_scaler_.present THEN [ok |-> TRUE, ls |-> loss_scaler_]
           ELSE IF k_loss_scaler_state \notin DOMAIN props
             THEN [ok |-> FALSE, ls |-> loss_scaler_]
             ELSE LoadFromString(loss_scaler_, props[k_loss_scaler_state])
  IN IF ~s.ok THEN LoadedThrough(1, "error", s, r, w, d, l.ls)
     ELSE IF ~r.ok THEN LoadedThrough(2, "error", s, r, w, d, l.ls)
     ELSE IF ~w.ok THEN LoadedThrough(3, "error", s, r, w, d, l.ls)
     ELSE IF ~d.ok THEN LoadedThrough(4, "error", s, r, w, d, l.ls)
     ELSE IF ~l.ok THEN LoadedThrough(5, "error", s, r, w, d, l.ls)
     ELSE LoadedThrough(5, "ok", s, r, w, d, l.ls)

\* TrainingRunner::LoadCheckpointProperties: the properties are loaded one
\* after the other, and the first that fails returns its error
LoadCheckpointProperties(props) ==
  LET s == load_property(props, k_step, step_)
      r == load_property(props, k_round, round_)
      w == load_property(props, k_weight_update_step, weight_update_step_count_)
      d == load_property(props, k_training_data_set_index,
                         training_data_set_index_)
      l == IF ~loss_scaler_.present THEN [ok |-> TRUE, ls |-> loss_scaler_]
           ELSE IF k_loss_scaler_state \notin DOMAIN props
             THEN [ok |-> FALSE, ls |-> loss_scaler_]
             ELSE LoadFromString(loss_scaler_, props[k_loss_scaler_state])
  IN IF ~s.ok THEN LoadedThrough(1, "error", s, r, w, d, l.ls)
     ELSE IF ~r.ok THEN LoadedThrough(2, "error", s, r, w, d, l.ls)
     ELSE IF ~w.ok THEN LoadedThrough(3, "error", s, r, w, d, l.ls)
     ELSE IF ~d.ok THEN LoadedThrough(4, "error", s, r, w, d, l.ls)
     ELSE IF ~l.ok THEN LoadedThrough(5, "error", s, r, w, d, l.ls)
     ELSE LoadedThrough(5, "ok", s, r, w, d, l.ls)

(* ------------------------------------------------------------------ *)
(* Construction and Initialize                                        *)
(* ------------------------------------------------------------------ *)
\* test loader, do_eval, evaluation_period, skip_evaluation, eval_batch_size,
\* batch_size
EvalConfigs ==
  { [has_test_loader |-> FALSE, do_eval |-> FALSE, evaluation_period |-> 1,
     skip_evaluation |-> FALSE, eval_batch_size |-> 1, batch_size |-> 1],
    [has_test_loader |-> TRUE, do_eval |-> TRUE, evaluation_period |-> 1,
     skip_evaluation |-> FALSE, eval_batch_size |-> 1, batch_size |-> 1],
    [has_test_loader |-> TRUE, do_eval |-> TRUE, evaluation_period |-> 2,
     skip_evaluation |-> FALSE, eval_batch_size |-> 3, batch_size |-> 2],
    [has_test_loader |-> TRUE, do_eval |-> TRUE, evaluation_period |-> 1,
     skip_evaluation |-> TRUE, eval_batch_size |-> 1, batch_size |-> 1] }

\* what ConfigureForTraining returns for a pipeline stage
PipelineConfigs ==
  { [event_names |-> EventKindSet,
     output_names |-> << "forward_wait_output", "forward_record_output",
                         "backward_wait_output", "backward_record_output" >>,
     feed_names |-> { "input", "label", "loss_scale", "lr" },
     fetch_names |-> << "loss", "all_finite", "grad_accum" >>],
    [event_names |-> { "forward_recorded_event", "backward_waited_event" },
     output_names |-> << "forward_record_output", "backward_wait_output" >>,
     feed_names |-> { "input", "lr" },
     fetch_names |-> << "grad_accum" >>] }

\* without a pipeline no event name is produced
NoPipelineConfig ==
  [event_names |-> {}, output_names |-> << >>, feed_names |-> {},
   fetch_names |-> << >>]

\* the shards of the training data: each failed to load or holds batches
ShardLayouts ==
  UNION { [1..n -> { [loaded |-> FALSE, batches |-> 0] }
                   \cup { [loaded |-> TRUE, batches |-> b] : b \in BatchCounts }]
          : n \in ShardCounts }

\* params_.loss_scale: 0 asks for the dynamic loss scaler
LossScales == {0, 128}

NoFeeds == [n \in {} |-> 0]

\* an empty property map, and the mark of properties no runner has saved
NoProperties == [k \in {} |-> << >>]
NoSnapshot ==
  [valid |-> FALSE, step |-> 0, round |-> 0, weight_update_step |-> 0,
   training_data_set_index |-> 0, loss_scale |-> 0, stable_steps |-> 0]

\* a constructor that leaves the step counts unchecked
ConstructorAccepts_NoStepCheck(p) ==
  /\ p.model_path # ""
  /\ (p.weights_to_train # {} => p.weights_not_to_train = {})
  /\ p.training_optimizer_name # ""
  /\ (p.deepspeed_zero_stage # 0 => p.use_nccl)

\* TrainingRunner::TrainingRunner: the constructor's ORT_ENFORCEs hold
ConstructorAccepts(p) ==
  /\ p.model_path # ""
  /\ (p.weights_to_train # {} => p.weights_not_to_train = {})
  /\ p.training_optimizer_name # ""
  /\ (p.deepspeed_zero_stage # 0 => p.use_nccl)
  /\ p.num_train_steps % p.gradient_accumulation_steps = 0

\* a scaler that is made static with the configured scale, also when it is 0
InitialLossScaler_AlwaysStatic(p) ==
  IF p.use_mixed_precision
    THEN [present |-> TRUE, is_dynamic |-> FALSE, loss_scale |-> p.loss_scale,
          stable_steps |-> 0]
    ELSE [present |-> FALSE, is_dynamic |-> FALSE, loss_scale |-> 0,
          stable_steps |-> 0]

\* the LossScaler Initialize creates
InitialLossScaler(p) ==
  IF p.use_mixed_precision
    THEN IF p.loss_scale = 0
      THEN [present |-> TRUE, is_dynamic |-> TRUE, loss_scale |-> 65536,
            stable_steps |-> 0]
      ELSE [present |-> TRUE, is_dynamic |-> FALSE, loss_scale |-> p.loss_scale,
            stable_steps |-> 0]
    ELSE [present |-> FALSE, is_dynamic |-> FALSE, loss_scale |-> 0,
          stable_steps |-> 0]

\* the loss scaler before Initialize creates one
NoLossScaler ==
  [present |-> FALSE, is_dynamic |-> FALSE, loss_scale |-> 0, stable_steps |-> 0]

\* model_path, training_optimizer_name, weights_to_train, weights_not_to_train,
\* deepspeed_zero.stage and use_nccl as the constructor is given them
DefaultConstructorInput ==
  [model_path |-> "model.onnx", training_optimizer_name |-> "Adam",
   weights_to_train |-> {}, weights_not_to_train |-> {},
   deepspeed_zero_stage |-> 0, use_nccl |-> FALSE]

ConstructorInputs ==
  { DefaultConstructorInput,
    [DefaultConstructorInput EXCEPT !.model_path = ""],
    [DefaultConstructorInput EXCEPT !.training_optimizer_name = ""],
    [DefaultConstructorInput EXCEPT !.weights_to_train = {"w"}],
    [DefaultConstructorInput EXCEPT !.weights_not_to_train = {"b"}],
    [DefaultConstructorInput EXCEPT !.weights_to_train = {"w"},
                                    !.weights_not_to_train = {"b"}],
    [DefaultConstructorInput EXCEPT !.use_nccl = TRUE],
    [DefaultConstructorInput EXCEPT !.deepspeed_zero_stage = 1],
    [DefaultConstructorInput EXCEPT !.deepspeed_zero_stage = 1,
                                    !.use_nccl = TRUE] }

\* mpi_context.world_rank, checkpoints_dir, checkpoint_period,
\* max_num_checkpoints, checkpoint_to_load_path (0 stands for the empty path,
\* k for the directory of the checkpoint of weight-update step k), and the
\* checkpoints an earlier run left on the disk
NoCheckpointing ==
  [world_rank |-> 0, checkpoints_dir |-> "", checkpoint_period |-> 0,
   max_num_checkpoints |-> 1, checkpoint_to_load_path |-> 0, prior |-> {}]

CheckpointConfigs ==
  { [world_rank |-> 0, checkpoints_dir |-> "ckpt", checkpoint_period |-> 1,
     max_num_checkpoints |-> 1, checkpoint_to_load_path |-> 0, prior |-> {}],
    [world_rank |-> 0, checkpoints_dir |-> "ckpt", checkpoint_period |-> 1,
     max_num_checkpoints |-> 2, checkpoint_to_load_path |-> 1, prior |-> {1, 3}],
    [world_rank |-> 0, checkpoints_dir |-> "ckpt", checkpoint_period |-> 1,
     max_num_checkpoints |-> 2, checkpoint_to_load_path |-> 0, prior |-> {1}],
    [world_rank |-> 0, checkpoints_dir |-> "ckpt", checkpoint_period |-> 2,
     max_num_checkpoints |-> 1, checkpoint_to_load_path |-> 0, prior |-> {}],
    [world_rank |-> 1, checkpoints_dir |-> "ckpt", checkpoint_period |-> 1,
     max_num_checkpoints |-> 1, checkpoint_to_load_path |-> 0, prior |-> {1}],
    [world_rank |-> 0, checkpoints_dir |-> "ckpt", checkpoint_period |-> 0,
     max_num_checkpoints |-> 1, checkpoint_to_load_path |-> 0, prior |-> {1}],
    [world_rank |-> 0, checkpoints_dir |-> "", checkpoint_period |-> 1,
     max_num_checkpoints |-> 1, checkpoint_to_load_path |-> 1, prior |-> {1}],
    [world_rank |-> 0, checkpoints_dir |-> "ckpt", checkpoint_period |-> 1,
     max_num_checkpoints |-> 2, checkpoint_to_load_path |-> 3, prior |-> {1}],
    [world_rank |-> 0, checkpoints_dir |-> "ckpt", checkpoint_period |-> 1,
     max_num_checkpoints |-> 2, checkpoint_to_load_path |-> 0, prior |-> {3}] }

\* params_.fetch_names as the user gives them
FetchNameLists == { << "loss" >>, << >> }

\* the evaluation configurations the narrow families run with
NoTestLoader == CHOOSE ec \in EvalConfigs : ~ec.has_test_loader
EvalEveryStep ==
  CHOOSE ec \in EvalConfigs :
    ec.has_test_loader /\ ec.evaluation_period = 1 /\ ~ec.skip_evaluation

\* one shard of two batches
OneShard == << [loaded |-> TRUE, batches |-> 2] >>

\* the pipeline configuration of a stage that produces the loss
LossPipelineConfig ==
  CHOOSE c \in PipelineConfigs : "loss" \in { c.fetch_names[i] :
                                              i \in 1..Len(c.fetch_names) }

Parameters(n, a, pps, mp, ls, ec, fn, ci, ck, tl) ==
  [num_train_steps |-> n, gradient_accumulation_steps |-> a,
   pipeline_parallel_size |-> pps, use_mixed_precision |-> mp,
   loss_scale |-> ls, use_adasum |-> FALSE,
   fetch_names |-> fn,
   has_test_loader |-> ec.has_test_loader, do_eval |-> ec.do_eval,
   evaluation_period |-> ec.evaluation_period,
   skip_evaluation |-> ec.skip_evaluation,
   eval_batch_size |-> ec.eval_batch_size, batch_size |-> ec.batch_size,
   error_function |-> TRUE, post_evaluation_callback |-> TRUE,
   is_perf_test |-> FALSE, display_loss_steps |-> 1,
   model_path |-> ci.model_path,
   training_optimizer_name |-> ci.training_optimizer_name,
   weights_to_train |-> ci.weights_to_train,
   weights_not_to_train |-> ci.weights_not_to_train,
   deepspeed_zero_stage |-> ci.deepspeed_zero_stage, use_nccl |-> ci.use_nccl,
   world_rank |-> ck.world_rank, checkpoints_dir |-> ck.checkpoints_dir,
   checkpoint_period |-> ck.checkpoint_period,
   max_num_checkpoints |-> ck.max_num_checkpoints,
   checkpoint_to_load_path |-> ck.checkpoint_to_load_path,
   has_training_loader |-> tl]

\* no CheckpointRegistry was created
NoRegistry == [present |-> FALSE, max_num_checkpoints |-> 0, checkpoints |-> << >>]

\* the properties an earlier run with parameters p wrote with the checkpoint
\* of its k-th weight update
PriorProperties(p, k) ==
  [ name \in CounterPropertyNames
          \cup (IF p.use_mixed_precision THEN {k_loss_scaler_state} ELSE {}) |->
      IF name = k_step THEN to_string(k * p.gradient_accumulation_steps)
      ELSE IF name = k_round THEN to_string(0)
      ELSE IF name = k_weight_update_step THEN to_string(k)
      ELSE IF name = k_training_data_set_index THEN to_string(0)
      ELSE SaveToString(InitialLossScaler(p)) ]

\* the runner and its surroundings when the constructor is entered
ConstructingWith(p, stages, configs, layouts, prior, calls) ==
  /\ params_ = p
  /\ updates = calls
  /\ \E stage \in stages, pc_cfg \in configs :
       pipeline_context_ =
         [pipeline_stage_id |-> stage,
          num_pipeline_batches |-> IF p.pipeline_parallel_size > 1
                                     THEN p.gradient_accumulation_steps ELSE 0,
          event_names |-> pc_cfg.event_names,
          output_names |-> pc_cfg.output_names,
          feed_names |-> pc_cfg.feed_names,
          fetch_names |-> pc_cfg.fetch_names]
  /\ workers = [w \in 0..(p.pipeline_parallel_size - 1) |->
                  [state |-> "idle", mode |-> "none", step |-> 0]]
  /\ worker_states = [w \in 0..(p.pipeline_parallel_size - 1) |->
                  [feeds |-> NoFeeds, fetch_names |-> << >>,
                   fetched |-> FALSE, all_finite |-> TRUE]]
  /\ shards \in layouts
  /\ disk = [k \in prior |->
               [complete |-> TRUE, properties |-> PriorProperties(p, k)]]
  /\ loss_scaler_ = NoLossScaler
  /\ checkpoint_registry_ = NoRegistry
  /\ checkpoint_loaded = 0
  /\ step_ = 0 /\ round_ = 0 /\ weight_update_step_count_ = 0
  /\ training_data_set_index_ = 0
  /\ gradient_accumulation_step_count = 0
  /\ pc = "construct"
  /\ shard_it = 0 /\ batch = 0 /\ is_weight_update_step = FALSE
  /\ train_cursor = 0 /\ test_cursor = 0
  /\ status = "ok"
  /\ prepared = [feeds |-> NoFeeds, fetch_names |-> << >>]
  /\ main_run = "none"
  /\ batch_idx = 0 /\ eval_return = "none" /\ current_batch = 0
  /\ callbacks = << >>
  /\ process = "running"
  /\ properties = NoProperties
  /\ saved_from = NoSnapshot
  /\ load_status = "none"

\* a caller that constructs, initializes, runs once and ends the training
Constructing(p, stages, configs, layouts, prior) ==
  ConstructingWith(p, stages, configs, layouts, prior, << >>)

\* every training and evaluation configuration, without checkpoints
InitTraining ==
  \E n \in 1..MaxTrainSteps, a \in 1..MaxAccum, pps \in 1..MaxStages,
     mp \in BOOLEAN, ls \in LossScales, ec \in EvalConfigs :
    /\ (~mp => ls = 0)
    /\ n % a = 0
    /\ Constructing(Parameters(n, a, pps, mp, ls, ec, << "loss" >>,
                               DefaultConstructorInput, NoCheckpointing, TRUE),
                    0..(pps - 1),
                    IF pps > 1 THEN PipelineConfigs ELSE {NoPipelineConfig},
                    ShardLayouts, {})

\* what the constructor checks, in every combination that is not the default
InitConstructorInputs ==
  \E n \in 1..MaxTrainSteps, a \in 1..MaxAccum, ci \in ConstructorInputs :
    /\ (ci # DefaultConstructorInput \/ n % a # 0)
    /\ Constructing(Parameters(n, a, 1, FALSE, 0, NoTestLoader, << "loss" >>,
                               ci, NoCheckpointing, TRUE),
                    {0}, {NoPipelineConfig}, {OneShard}, {})

\* runs whose user gave no fetch name
InitNoFetchNames ==
  \E a \in 1..MaxAccum, pps \in 1..MaxStages, mp \in BOOLEAN, ls \in LossScales,
     ec \in {NoTestLoader, EvalEveryStep} :
    /\ (~mp => ls = 0)
    /\ Constructing(Parameters(a, a, pps, mp, ls, ec, << >>,
                               DefaultConstructorInput, NoCheckpointing, TRUE),
                    0..(pps - 1),
                    IF pps > 1 THEN PipelineConfigs ELSE {NoPipelineConfig},
                    {OneShard}, {})

\* every weight update is saved, on an empty disk
SaveEveryUpdate ==
  CHOOSE ck \in CheckpointConfigs :
    /\ ck.world_rank = 0 /\ ck.checkpoints_dir # "" /\ ck.prior = {}
    /\ ck.checkpoint_period = 1

\* runs with checkpoint parameters, some on a disk that holds checkpoints;
\* the runs that save every weight update also with an evaluation per step
InitCheckpointing ==
  \E n \in 1..MaxTrainSteps, a \in 1..MaxAccum, pps \in 1..MaxStages,
     mp \in BOOLEAN, ck \in CheckpointConfigs,
     ec \in {NoTestLoader, EvalEveryStep} :
    /\ n % a = 0
    /\ ec = EvalEveryStep => ck = SaveEveryUpdate
    /\ Constructing(Parameters(n, a, pps, mp, 0, ec, << "loss" >>,
                               DefaultConstructorInput, ck, TRUE),
                    {pps - 1},
                    IF pps > 1 THEN {LossPipelineConfig} ELSE {NoPipelineConfig},
                    {OneShard}, ck.prior)

\* Run is called without a training data loader
InitNoTrainingLoader ==
  \E a \in 1..MaxAccum, ec \in {NoTestLoader, EvalEveryStep} :
    Constructing(Parameters(a, a, 1, FALSE, 0, ec, << "loss" >>,
                            DefaultConstructorInput, NoCheckpointing, FALSE),
                 {0}, {NoPipelineConfig}, {OneShard}, {})

\* the Parameters a caller hands to UpdateParams: nothing checks them
UpdateParamsInputs ==
  { [num_train_steps |-> n, gradient_accumulation_steps |-> a,
     batch_size |-> 1] : n \in 2..3, a \in 1..MaxAccum }

\* a caller that runs, calls UpdateParams and runs again
InitUpdateParams ==
  \E a \in 1..MaxAccum, pps \in 1..MaxStages, u \in UpdateParamsInputs :
    ConstructingWith(Parameters(2, a, pps, FALSE, 0, NoTestLoader, << "loss" >>,
                                DefaultConstructorInput, NoCheckpointing, TRUE),
                     {pps - 1},
                     IF pps > 1 THEN {LossPipelineConfig} ELSE {NoPipelineConfig},
                     {OneShard}, {}, << u >>)

Init ==
  \/ InitTraining
  \/ InitConstructorInputs
  \/ InitNoFetchNames
  \/ InitCheckpointing
  \/ InitNoTrainingLoader
  \/ InitUpdateParams

(* ------------------------------------------------------------------ *)
(* Run and TrainingLoop                                               *)
(* ------------------------------------------------------------------ *)
Running == process = "running"

config_vars == << params_, pipeline_context_, shards, updates >>
checkpoint_vars ==
  << properties, saved_from, load_status, checkpoint_registry_,
     checkpoint_loaded, disk >>
counter_vars ==
  << step_, round_, weight_update_step_count_, gradient_accumulation_step_count >>
loop_vars == << shard_it, batch, is_weight_update_step >>
pool_vars == << workers, worker_states, status, main_run >>
eval_vars == << batch_idx, eval_return, current_batch, test_cursor >>

\* the slot after the one of the step counter
WorkerId_NextSlot == (step_ + 1) % params_.pipeline_parallel_size

\* Cyclically pick up a worker ID
WorkerId == step_ % params_.pipeline_parallel_size

\* the update decision taken one step early
IsWeightUpdateStep_OffByOne ==
  step_ % params_.gradient_accumulation_steps = 0

\* (step_ + 1) % gradient_accumulation_steps == 0
IsWeightUpdateStep ==
  (step_ + 1) % params_.gradient_accumulation_steps = 0

\* a loop condition that forgets the bound on step_
BatchLoopContinues_NoStepBound == batch < TotalBatch

\* batch < batch_num_cur_shard && step_ < params_.num_train_steps
BatchLoopContinues ==
  batch < TotalBatch /\ step_ < params_.num_train_steps

\* TrainingRunner::TrainingRunner: a violated ORT_ENFORCE throws and no runner
\* exists
Construct ==
  /\ Running /\ pc = "construct"
  /\ IF ConstructorAccepts(params_)
       THEN pc' = "constructed" /\ process' = process
       ELSE pc' = pc /\ process' = "construct_thrown"
  /\ UNCHANGED << config_vars, checkpoint_vars, loss_scaler_, counter_vars,
                  training_data_set_index_, loop_vars, train_cursor, pool_vars,
                  prepared, eval_vars, callbacks >>

\* Initialize up to session_.Initialize(): the loss scaler is created
InitializeSession ==
  /\ Running /\ pc = "constructed"
  /\ loss_scaler_' = InitialLossScaler(params_)
  /\ pc' = "checkpointing_init"
  /\ UNCHANGED << config_vars, checkpoint_vars, counter_vars,
                  training_data_set_index_, loop_vars, train_cursor, pool_vars,
                  prepared, eval_vars, callbacks, process >>

\* LoadModelCheckpoint reads a completely written checkpoint directory
LoadModelCheckpointStatus(path) ==
  IF path \in DOMAIN disk /\ disk[path].complete THEN "ok" ELSE "error"

\* Initialize, checkpointing initialization: with a checkpoints directory the
\* registry is created, and the requested checkpoint, or else the latest one
\* of the registry, is loaded
InitializeCheckpointing ==
  /\ Running /\ pc = "checkpointing_init"
  /\ IF params_.checkpoints_dir # ""
       THEN LET registry == CheckpointRegistry(DOMAIN disk,
                                               params_.max_num_checkpoints)
                latest == TryGetLatestCheckpoint(registry)
                checkpoint_to_load_path ==
                  IF params_.checkpoint_to_load_path # 0
                    THEN params_.checkpoint_to_load_path ELSE latest.path
            IN /\ checkpoint_registry_' = registry
               /\ IF params_.checkpoint_to_load_path # 0 \/ latest.found
                    THEN IF LoadModelCheckpointStatus(checkpoint_to_load_path) = "ok"
                      THEN LET props == disk[checkpoint_to_load_path].properties
                               loaded == LoadCheckpointProperties(props)
                           IN /\ properties' = props
                              /\ step_' = loaded.step
                              /\ round_' = loaded.round
                              /\ weight_update_step_count_' = loaded.weight_update_step
                              /\ training_data_set_index_' =
                                   loaded.training_data_set_index
                              /\ loss_scaler_' = loaded.loss_scaler
                              /\ load_status' = loaded.status
                              /\ checkpoint_loaded' =
                                   IF loaded.status = "ok"
                                     THEN checkpoint_to_load_path ELSE 0
                              /\ IF loaded.status = "ok"
                                   THEN pc' = "start" /\ process' = process
                                   ELSE pc' = pc /\ process' = "initialize_failed"
                      ELSE /\ load_status' = "error"
                           /\ process' = "initialize_failed"
                           /\ UNCHANGED << properties, step_, round_,
                                           weight_update_step_count_,
                                           training_data_set_index_,
                                           loss_scaler_, checkpoint_loaded, pc >>
                    ELSE /\ pc' = "start"
                         /\ UNCHANGED << properties, step_, round_,
                                         weight_update_step_count_,
                                         training_data_set_index_, loss_scaler_,
                                         load_status, checkpoint_loaded,
                                         process >>
       ELSE /\ pc' = "start"
            /\ UNCHANGED << checkpoint_registry_, properties, step_, round_,
                            weight_update_step_count_, training_data_set_index_,
                            loss_scaler_, load_status, checkpoint_loaded,
                            process >>
  /\ UNCHANGED << config_vars, saved_from, disk,
                  gradient_accumulation_step_count, loop_vars, train_cursor,
                  pool_vars, prepared, eval_vars, callbacks >>

\* a Run without a training data loader that counts as a round
RunWithoutTrainingLoader_CountsRound ==
  /\ Running /\ pc = "start" /\ ~params_.has_training_loader
  /\ round_' = round_ + 1
  /\ step_' = 0
  /\ pc' = "run_done"
  /\ UNCHANGED << config_vars, checkpoint_vars, loss_scaler_,
                  weight_update_step_count_, gradient_accumulation_step_count,
                  training_data_set_index_, loop_vars, train_cursor, pool_vars,
                  prepared, eval_vars, callbacks, process >>

\* Run without a training data loader: nothing to do, OK is returned
RunWithoutTrainingLoader ==
  /\ Running /\ pc = "start" /\ ~params_.has_training_loader
  /\ pc' = "run_done"
  /\ UNCHANGED << config_vars, checkpoint_vars, loss_scaler_, counter_vars,
                  training_data_set_index_, loop_vars, train_cursor, pool_vars,
                  prepared, eval_vars, callbacks, process >>

\* Run with a training loader enters TrainingLoop: both loaders are positioned
\* and the loop's local counters start at 0
StartTrainingLoop ==
  /\ Running /\ pc = "start" /\ params_.has_training_loader
  /\ test_cursor' = (IF params_.has_test_loader THEN 0 ELSE test_cursor)
  /\ train_cursor' = training_data_set_index_
  /\ gradient_accumulation_step_count' = 0
  /\ pc' = "while"
  /\ UNCHANGED << config_vars, checkpoint_vars, loss_scaler_, step_, round_,
                  weight_update_step_count_, training_data_set_index_, loop_vars,
                  pool_vars, prepared, batch_idx, eval_return, current_batch,
                  callbacks, process >>

\* while (step_ < params_.num_train_steps): enter the shard loop or leave
WhileHead ==
  /\ Running /\ pc = "while"
  /\ IF step_ < params_.num_train_steps
       THEN shard_it' = 0 /\ pc' = "shard"
       ELSE shard_it' = shard_it /\ pc' = "loop_ok"
  /\ UNCHANGED << config_vars, checkpoint_vars, loss_scaler_, counter_vars,
                  training_data_set_index_, batch, is_weight_update_step,
                  train_cursor, pool_vars, prepared, eval_vars, callbacks,
                  process >>

\* the shard loop is over: next epoch
EndOfEpoch ==
  /\ Running /\ pc = "shard" /\ shard_it >= NumShards
  /\ pc' = "while"
  /\ UNCHANGED << config_vars, checkpoint_vars, loss_scaler_, counter_vars,
                  training_data_set_index_, loop_vars, train_cursor, pool_vars,
                  prepared, eval_vars, callbacks, process >>

\* a skipped shard that stays the loader's current data set
SkipShard_NoMove ==
  /\ Running /\ pc = "shard" /\ shard_it < NumShards
  /\ ~CurrentDataSetLoaded
  /\ training_data_set_index_' = train_cursor
  /\ shard_it' = shard_it + 1
  /\ UNCHANGED << config_vars, checkpoint_vars, loss_scaler_, counter_vars, pc, batch,
                  is_weight_update_step, train_cursor, pool_vars, prepared,
                  eval_vars, callbacks, process >>

\* a shard that failed to load is skipped
SkipShard ==
  /\ Running /\ pc = "shard" /\ shard_it < NumShards
  /\ ~CurrentDataSetLoaded
  /\ training_data_set_index_' = train_cursor
  /\ train_cursor' = MoveToNextDataSet(train_cursor, NumShards)
  /\ shard_it' = shard_it + 1
  /\ UNCHANGED << config_vars, checkpoint_vars, loss_scaler_, counter_vars, pc, batch,
                  is_weight_update_step, pool_vars, prepared, eval_vars,
                  callbacks, process >>

\* a loaded shard: loop through its batches
EnterShard ==
  /\ Running /\ pc = "shard" /\ shard_it < NumShards
  /\ CurrentDataSetLoaded
  /\ training_data_set_index_' = train_cursor
  /\ batch' = 0
  /\ pc' = "batch"
  /\ UNCHANGED << config_vars, checkpoint_vars, loss_scaler_, counter_vars, shard_it,
                  is_weight_update_step, train_cursor, pool_vars, prepared,
                  eval_vars, callbacks, process >>

\* head of the batch loop: choose the mode and prepare feeds and fetches
BatchHead ==
  /\ Running /\ pc = "batch"
  /\ IF BatchLoopContinues
       THEN /\ is_weight_update_step' = IsWeightUpdateStep
            /\ LET mode == IF IsWeightUpdateStep THEN ModelUpdateStep
                                                 ELSE GradientAccumulateStep
               IN IF PrepareFeedStatus(mode) = "ok"
                    THEN /\ prepared' =
                              [feeds |-> PrepareFeedNamesAndFeeds(mode, TRUE, batch),
                               fetch_names |-> PrepareFetchNamesAndFetches(mode)]
                         /\ pc' = "run_join"
                    ELSE /\ prepared' = prepared
                         /\ pc' = "loop_error"
       ELSE /\ is_weight_update_step' = is_weight_update_step
            /\ prepared' = prepared
            /\ pc' = "shard_end"
  /\ UNCHANGED << config_vars, checkpoint_vars, loss_scaler_, counter_vars,
                  training_data_set_index_, shard_it, batch, train_cursor,
                  pool_vars, eval_vars, callbacks, process >>

\* the slot is reused without waiting for its previous work
RunJoin_NoJoin ==
  /\ Running /\ pc = "run_join"
  /\ pc' = "run_launch"
  /\ UNCHANGED << config_vars, checkpoint_vars, loss_scaler_, counter_vars,
                  training_data_set_index_, loop_vars, train_cursor, workers,
                  worker_states, status, main_run, prepared, eval_vars,
                  callbacks, process >>

\* RunWithUpdate / RunWithoutUpdate: wait for the slot's previous work
RunJoin ==
  /\ Running /\ pc = "run_join"
  /\ JoinReturns(workers, WorkerId)
  /\ workers' = Join(workers, WorkerId)
  /\ pc' = "run_launch"
  /\ UNCHANGED << config_vars, checkpoint_vars, loss_scaler_, counter_vars,
                  training_data_set_index_, loop_vars, train_cursor,
                  worker_states, status, main_run, prepared, eval_vars,
                  callbacks, process >>

\* the slot's buffers are overwritten and its thread is launched
Launch(mode) ==
  /\ worker_states' =
       [worker_states EXCEPT ![WorkerId] =
          [feeds |-> prepared.feeds, fetch_names |-> prepared.fetch_names,
           fetched |-> FALSE, all_finite |-> TRUE]]
  /\ workers' =
       [workers EXCEPT ![WorkerId] =
          [state |-> "running", mode |-> mode, step |-> step_]]

\* RunWithUpdate: copy to the slot and launch; the main thread goes on to JoinAll
RunWithUpdateLaunch ==
  /\ Running /\ pc = "run_launch" /\ is_weight_update_step
  /\ Launch(ModelUpdateStep)
  /\ status' = "ok"
  /\ pc' = "update_joinall"
  /\ UNCHANGED << config_vars, checkpoint_vars, loss_scaler_, counter_vars,
                  training_data_set_index_, loop_vars, train_cursor, main_run,
                  prepared, eval_vars, callbacks, process >>

\* RunWithoutUpdate: copy to the slot, launch and return at once
RunWithoutUpdate ==
  /\ Running /\ pc = "run_launch" /\ ~is_weight_update_step
  /\ Launch(GradientAccumulateStep)
  /\ step_' = step_ + 1
  /\ gradient_accumulation_step_count' = gradient_accumulation_step_count + 1
  /\ pc' = "after_step"
  /\ UNCHANGED << config_vars, checkpoint_vars, loss_scaler_, round_, weight_update_step_count_,
                  training_data_set_index_, loop_vars, train_cursor, status,
                  main_run, prepared, eval_vars, callbacks, process >>

\* RunWithUpdate going on without waiting for the workers
RunWithUpdateJoinAll_NoWait ==
  /\ Running /\ pc = "update_joinall"
  /\ pc' = "update_post"
  /\ UNCHANGED << config_vars, checkpoint_vars, loss_scaler_, counter_vars,
                  training_data_set_index_, loop_vars, train_cursor, workers,
                  worker_states, status, main_run, prepared, eval_vars,
                  callbacks, process >>

\* RunWithUpdate: wait all workers to finish this round of the pipeline
RunWithUpdateJoinAll ==
  /\ Running /\ pc = "update_joinall"
  /\ JoinAllReturns(workers)
  /\ workers' = JoinAll(workers)
  /\ pc' = "update_post"
  /\ UNCHANGED << config_vars, checkpoint_vars, loss_scaler_, counter_vars,
                  training_data_set_index_, loop_vars, train_cursor,
                  worker_states, status, main_run, prepared, eval_vars,
                  callbacks, process >>

\* every stage taken to see the loss
TrainSessionCanSeeLoss_AnyStage == TRUE

\* Assume that only the last pipeline stage can see loss
TrainSessionCanSeeLoss ==
  \/ params_.pipeline_parallel_size = 1
  \/ pipeline_context_.pipeline_stage_id = params_.pipeline_parallel_size - 1

\* the callbacks RunWithUpdate invokes
TrainCallbacks ==
  IF /\ TrainSessionCanSeeLoss
     /\ ~params_.is_perf_test
     /\ weight_update_step_count_ % params_.display_loss_steps = 0
    THEN (IF params_.error_function
            THEN << [fn |-> "error_function", tag |-> "train"] >> ELSE << >>)
         \o (IF params_.post_evaluation_callback
            THEN << [fn |-> "post_evaluation_callback", tag |-> "train"] >>
            ELSE << >>)
    ELSE << >>

\* a failed Status that is not looked at
UpdateRunFailed_Ignored == FALSE

\* ORT_THROW_IF_ERROR(status)
UpdateRunFailed == status # "ok"

\* RunWithUpdate after JoinAll: throw on a failed run; else read the fetches,
\* update the loss scaler, call back and advance the counters
RunWithUpdateFinish ==
  /\ Running /\ pc = "update_post"
  /\ IF UpdateRunFailed
       THEN /\ process' = "thrown"
            /\ UNCHANGED << loss_scaler_, callbacks, workers, step_,
                            weight_update_step_count_, pc >>
       ELSE /\ loss_scaler_' =
                 IF /\ loss_scaler_.present
                    /\ opt_graph_outputs_.GradientAllIsFinite
                         \in SeqToSet(prepared.fetch_names)
                   THEN UpdateLossScale(loss_scaler_,
                                        worker_states[WorkerId].all_finite)
                   ELSE loss_scaler_
            /\ callbacks' = callbacks \o TrainCallbacks
            /\ workers' = JoinAll(workers)
            /\ step_' = step_ + 1
            /\ weight_update_step_count_' = weight_update_step_count_ + 1
            /\ pc' = "after_step"
            /\ process' = process
  /\ UNCHANGED << config_vars, checkpoint_vars, round_, gradient_accumulation_step_count,
                  training_data_set_index_, loop_vars, train_cursor,
                  worker_states, status, main_run, prepared, eval_vars >>

\* after the step: evaluate when the evaluation period is met
AfterStep ==
  /\ Running /\ pc = "after_step"
  /\ IF /\ params_.has_test_loader /\ params_.do_eval
        /\ step_ % params_.evaluation_period = 0
       THEN pc' = "evaluate" /\ eval_return' = "checkpoint"
       ELSE pc' = "checkpoint" /\ eval_return' = eval_return
  /\ UNCHANGED << config_vars, checkpoint_vars, loss_scaler_, counter_vars,
                  training_data_set_index_, loop_vars, train_cursor, pool_vars,
                  prepared, batch_idx, current_batch, test_cursor, callbacks,
                  process >>

\* enable_checkpoint_saving
enable_checkpoint_saving ==
  /\ params_.world_rank = 0
  /\ checkpoint_registry_.present
  /\ params_.checkpoint_period > 0

\* a checkpoint after every weight update, whatever the period
CheckpointDue_EveryUpdate ==
  enable_checkpoint_saving /\ is_weight_update_step

\* enable_checkpoint_saving && is_weight_update_step &&
\* weight_update_step_count_ % params_.checkpoint_period == 0
CheckpointDue ==
  /\ enable_checkpoint_saving /\ is_weight_update_step
  /\ weight_update_step_count_ % params_.checkpoint_period = 0

\* the checkpoints directory exists once it holds a checkpoint directory
FolderExists == DOMAIN disk # {}

\* a failed deletion of the old checkpoint that is returned as an error
DeleteFolderReturned_Failure(deleted) == IF deleted THEN "ok" ELSE "error"

\* what the loop returns because of DeleteFolder's Status: nothing, a failure
\* is logged as a warning
DeleteFolderReturned(deleted) == "ok"

\* a checkpoint is due: AddCheckpoint, the checkpoints directory is created
\* if it is missing, and the evicted checkpoint's directory is deleted; a
\* failed deletion is logged and nothing else
RegisterCheckpoint ==
  /\ Running /\ pc = "checkpoint" /\ CheckpointDue
  /\ IF AddCheckpointStatus(checkpoint_registry_, weight_update_step_count_) # "ok"
       THEN /\ process' = "error_returned"
            /\ UNCHANGED << checkpoint_registry_, disk, pc >>
       ELSE LET added == AddCheckpoint(checkpoint_registry_,
                                       weight_update_step_count_)
            IN /\ checkpoint_registry_' = added.registry
               /\ \E created \in BOOLEAN, deleted \in BOOLEAN :
                    /\ (FolderExists => created)
                    /\ IF ~created
                         THEN /\ deleted
                              /\ process' = "error_returned"
                              /\ UNCHANGED << disk, pc >>
                         ELSE /\ (~added.should_remove_old_checkpoint => deleted)
                              /\ (added.old_checkpoint_path \notin DOMAIN disk
                                    => deleted)
                              /\ disk' =
                                   IF added.should_remove_old_checkpoint /\ deleted
                                     THEN [k \in DOMAIN disk
                                                 \ {added.old_checkpoint_path}
                                             |-> disk[k]]
                                     ELSE disk
                              /\ IF DeleteFolderReturned(deleted) = "ok"
                                   THEN pc' = "save_checkpoint" /\ process' = process
                                   ELSE pc' = pc /\ process' = "error_returned"
  /\ UNCHANGED << config_vars, properties, saved_from, load_status,
                  checkpoint_loaded, loss_scaler_, counter_vars,
                  training_data_set_index_, loop_vars, train_cursor, pool_vars,
                  prepared, eval_vars, callbacks >>

\* the path AddCheckpoint handed out for the checkpoint being written: the
\* directory of this weight-update step
new_checkpoint_path == weight_update_step_count_

\* SaveCheckpoint(new_checkpoint_path): the state tensors and the properties
\* are written; an error is returned from the training loop, and the
\* directory may then hold a part of the checkpoint
SaveCheckpoint ==
  /\ Running /\ pc = "save_checkpoint"
  /\ \E ok \in BOOLEAN, written \in BOOLEAN :
       /\ (ok => written)
       /\ IF ok
            THEN /\ properties' = SaveCheckpointProperties
                 /\ saved_from' = Snapshot
                 /\ disk' = [k \in DOMAIN disk \cup {new_checkpoint_path} |->
                               IF k = new_checkpoint_path
                                 THEN [complete |-> TRUE,
                                       properties |-> SaveCheckpointProperties]
                                 ELSE disk[k]]
                 /\ pc' = "checkpoint_saved"
                 /\ process' = process
            ELSE /\ disk' = IF written
                              THEN [k \in DOMAIN disk \cup {new_checkpoint_path} |->
                                      IF k = new_checkpoint_path
                                        THEN [complete |-> FALSE,
                                              properties |-> NoProperties]
                                        ELSE disk[k]]
                              ELSE disk
                 /\ process' = "error_returned"
                 /\ UNCHANGED << properties, saved_from, pc >>
  /\ UNCHANGED << config_vars, load_status, checkpoint_registry_,
                  checkpoint_loaded, loss_scaler_, counter_vars,
                  training_data_set_index_, loop_vars, train_cursor, pool_vars,
                  prepared, eval_vars, callbacks >>

\* end of the batch loop's body: ++batch
NextBatch ==
  /\ Running
  /\ \/ pc = "checkpoint" /\ ~CheckpointDue
     \/ pc = "checkpoint_saved"
  /\ batch' = batch + 1
  /\ pc' = "batch"
  /\ UNCHANGED << config_vars, checkpoint_vars, loss_scaler_, counter_vars,
                  training_data_set_index_, shard_it, is_weight_update_step,
                  train_cursor, pool_vars, prepared, eval_vars, callbacks,
                  process >>

\* the end of a shard without draining the pool
ShardEndJoinAll_NoJoin ==
  /\ Running /\ pc = "shard_end"
  /\ pc' = "shard_move"
  /\ UNCHANGED << config_vars, checkpoint_vars, loss_scaler_, counter_vars,
                  training_data_set_index_, loop_vars, train_cursor, workers,
                  worker_states, status, main_run, prepared, eval_vars,
                  callbacks, process >>

\* end of one shard: drain the pool
ShardEndJoinAll ==
  /\ Running /\ pc = "shard_end"
  /\ JoinAllReturns(workers)
  /\ workers' = JoinAll(workers)
  /\ pc' = "shard_move"
  /\ UNCHANGED << config_vars, checkpoint_vars, loss_scaler_, counter_vars,
                  training_data_set_index_, loop_vars, train_cursor,
                  worker_states, status, main_run, prepared, eval_vars,
                  callbacks, process >>

\* end of one shard: move to the next data set unless training is over
ShardMove ==
  /\ Running /\ pc = "shard_move"
  /\ train_cursor' = IF step_ < params_.num_train_steps
                       THEN MoveToNextDataSet(train_cursor, NumShards)
                       ELSE train_cursor
  /\ shard_it' = shard_it + 1
  /\ pc' = "shard"
  /\ UNCHANGED << config_vars, checkpoint_vars, loss_scaler_, counter_vars,
                  training_data_set_index_, batch, is_weight_update_step,
                  pool_vars, prepared, eval_vars, callbacks, process >>

\* a Run that also starts the count of weight updates anew
RunReturn_ResetsUpdateCount ==
  /\ Running /\ pc = "loop_ok"
  /\ round_' = round_ + 1
  /\ step_' = 0
  /\ weight_update_step_count_' = 0
  /\ pc' = "run_done"
  /\ UNCHANGED << config_vars, checkpoint_vars, loss_scaler_,
                  gradient_accumulation_step_count, training_data_set_index_,
                  loop_vars, train_cursor, pool_vars, prepared, eval_vars,
                  callbacks, process >>

\* Run after a successful TrainingLoop: update counters
RunReturn ==
  /\ Running /\ pc = "loop_ok"
  /\ round_' = round_ + 1
  /\ step_' = 0
  /\ pc' = "run_done"
  /\ UNCHANGED << config_vars, checkpoint_vars, loss_scaler_, weight_update_step_count_,
                  gradient_accumulation_step_count, training_data_set_index_,
                  loop_vars, train_cursor, pool_vars, prepared, eval_vars,
                  callbacks, process >>

\* TrainingRunner::UpdateParams, called between two Runs: the learning-rate
\* parameters, num_train_steps, batch_size and gradient_accumulation_steps
\* are copied into params_; the caller then calls Run again
UpdateParams ==
  /\ Running /\ pc = "run_done" /\ updates # << >>
  /\ params_' = [params_ EXCEPT
                   !.num_train_steps = Head(updates).num_train_steps,
                   !.batch_size = Head(updates).batch_size,
                   !.gradient_accumulation_steps =
                     Head(updates).gradient_accumulation_steps]
  /\ updates' = Tail(updates)
  /\ pc' = "start"
  /\ UNCHANGED << pipeline_context_, shards, checkpoint_vars, loss_scaler_,
                  counter_vars, training_data_set_index_, loop_vars,
                  train_cursor, pool_vars, prepared, eval_vars, callbacks,
                  process >>

(* ------------------------------------------------------------------ *)
(* Evaluate and EndTraining                                           *)
(* ------------------------------------------------------------------ *)
\* ceil(eval_batch_size / batch_size)
NumEvalBatches ==
  (params_.eval_batch_size + params_.batch_size - 1) \div params_.batch_size

\* in Evaluate the session sees the loss on the last stage
EvalSessionCanSeeLoss ==
  pipeline_context_.pipeline_stage_id = params_.pipeline_parallel_size - 1

\* EndTraining evaluates the final model when a test loader is given
EndTraining ==
  /\ Running /\ pc = "run_done"
  /\ IF params_.has_test_loader
       THEN pc' = "evaluate" /\ eval_return' = "ended"
       ELSE pc' = "ended" /\ eval_return' = eval_return
  /\ UNCHANGED << config_vars, checkpoint_vars, loss_scaler_, counter_vars,
                  training_data_set_index_, loop_vars, train_cursor, pool_vars,
                  prepared, batch_idx, current_batch, test_cursor, callbacks,
                  process >>

\* Evaluate: skip_evaluation returns at once, else the batch loop starts
EvaluateBegin ==
  /\ Running /\ pc = "evaluate"
  /\ IF params_.skip_evaluation
       THEN pc' = eval_return /\ batch_idx' = batch_idx
       ELSE pc' = "eval_batch" /\ batch_idx' = 0
  /\ UNCHANGED << config_vars, checkpoint_vars, loss_scaler_, counter_vars,
                  training_data_set_index_, loop_vars, train_cursor, pool_vars,
                  prepared, eval_return, current_batch, test_cursor, callbacks,
                  process >>

\* head of Evaluate's loop: prepare the feeds of one test batch, or finish
\* with the post-evaluation callback
EvaluateBatchHead ==
  /\ Running /\ pc = "eval_batch"
  /\ IF batch_idx < NumEvalBatches
       THEN /\ prepared' =
                 [feeds |-> PrepareFeedNamesAndFeeds(EvaluateStep, FALSE, batch_idx),
                  fetch_names |-> PrepareFetchNamesAndFetches(EvaluateStep)]
            /\ pc' = IF params_.pipeline_parallel_size = 1
                       THEN "eval_join" ELSE "eval_run"
            /\ callbacks' = callbacks
       ELSE /\ prepared' = prepared
            /\ callbacks' = callbacks \o
                 (IF params_.post_evaluation_callback
                    THEN << [fn |-> "post_evaluation_callback", tag |-> "test"] >>
                    ELSE << >>)
            /\ pc' = eval_return
  /\ UNCHANGED << config_vars, checkpoint_vars, loss_scaler_, counter_vars,
                  training_data_set_index_, loop_vars, train_cursor, pool_vars,
                  eval_vars, process >>

\* evaluation launched without waiting for the first worker
EvaluateJoin_NoJoin ==
  /\ Running /\ pc = "eval_join"
  /\ pc' = "eval_launch"
  /\ UNCHANGED << config_vars, checkpoint_vars, loss_scaler_, counter_vars,
                  training_data_set_index_, loop_vars, train_cursor, workers,
                  worker_states, status, main_run, prepared, eval_vars,
                  callbacks, process >>

\* no pipeline: wait for the first worker's previous work
EvaluateJoin ==
  /\ Running /\ pc = "eval_join"
  /\ JoinReturns(workers, 0)
  /\ workers' = Join(workers, 0)
  /\ pc' = "eval_launch"
  /\ UNCHANGED << config_vars, checkpoint_vars, loss_scaler_, counter_vars,
                  training_data_set_index_, loop_vars, train_cursor,
                  worker_states, status, main_run, prepared, eval_vars,
                  callbacks, process >>

\* no pipeline: launch Run(...) on the first worker, reading Evaluate's locals
EvaluateLaunch ==
  /\ Running /\ pc = "eval_launch"
  /\ workers' = [workers EXCEPT ![0] =
                   [state |-> "running", mode |-> EvaluateStep, step |-> step_]]
  /\ status' = "ok"
  /\ pc' = "eval_wait"
  /\ UNCHANGED << config_vars, checkpoint_vars, loss_scaler_, counter_vars,
                  training_data_set_index_, loop_vars, train_cursor,
                  worker_states, main_run, prepared, eval_vars, callbacks,
                  process >>

\* pipeline: session.Run(...) is called on the main thread
EvaluateRunOnMainThread ==
  /\ Running /\ pc = "eval_run"
  /\ main_run' = "running"
  /\ pc' = "eval_running"
  /\ UNCHANGED << config_vars, checkpoint_vars, loss_scaler_, counter_vars,
                  training_data_set_index_, loop_vars, train_cursor, workers,
                  worker_states, status, prepared, eval_vars, callbacks,
                  process >>

\* pipeline: the main thread's session.Run(...) returns
MainThreadRunReturns ==
  /\ Running /\ pc = "eval_running" /\ main_run = "running"
  /\ main_run' = "none"
  /\ \E ok \in BOOLEAN :
       /\ status' = IF ok THEN "ok" ELSE "error"
       /\ pc' = "eval_ran"
  /\ UNCHANGED << config_vars, checkpoint_vars, loss_scaler_, counter_vars,
                  training_data_set_index_, loop_vars, train_cursor, workers,
                  worker_states, prepared, eval_vars, callbacks, process >>

\* no pipeline: wait Run(...) to finish
EvaluateWait ==
  /\ Running /\ pc = "eval_wait"
  /\ JoinReturns(workers, 0)
  /\ workers' = Join(workers, 0)
  /\ pc' = "eval_ran"
  /\ UNCHANGED << config_vars, checkpoint_vars, loss_scaler_, counter_vars,
                  training_data_set_index_, loop_vars, train_cursor,
                  worker_states, status, main_run, prepared, eval_vars,
                  callbacks, process >>

\* after the test batch ran: return its error, else call the error function
\* and set the test data to the next batch
EvaluateBatchDone ==
  /\ Running /\ pc = "eval_ran"
  /\ IF status # "ok"
       THEN /\ process' = "error_returned"
            /\ UNCHANGED << callbacks, current_batch, test_cursor, batch_idx, pc >>
       ELSE /\ callbacks' = callbacks \o
                 (IF EvalSessionCanSeeLoss /\ params_.error_function
                    THEN << [fn |-> "error_function", tag |-> "test"] >>
                    ELSE << >>)
            /\ IF current_batch + 1 >= TestTotalBatch(test_cursor)
                 THEN /\ test_cursor' = (test_cursor + 1) % Len(TestShards)
                      /\ current_batch' = 0
                 ELSE /\ test_cursor' = test_cursor
                      /\ current_batch' = current_batch + 1
            /\ batch_idx' = batch_idx + 1
            /\ pc' = "eval_batch"
            /\ process' = process
  /\ UNCHANGED << config_vars, checkpoint_vars, loss_scaler_, counter_vars,
                  training_data_set_index_, loop_vars, train_cursor, pool_vars,
                  prepared, eval_return >>

(* ------------------------------------------------------------------ *)
(* The threads of the worker pool                                     *)
(* ------------------------------------------------------------------ *)
\* the thread of slot w returns from session_.Run. A weight-update or an
\* evaluation thread stores the Status; an accumulation thread throws on a
\* failed Status, and an exception leaving a thread ends the process
SessionRunReturns(w) ==
  /\ Running
  /\ workers[w].state = "running"
  /\ \E ok \in BOOLEAN, finite \in BOOLEAN :
       /\ (~ok \/ workers[w].mode # ModelUpdateStep) => finite
       /\ IF workers[w].mode = GradientAccumulateStep /\ ~ok
            THEN /\ process' = "terminated"
                 /\ UNCHANGED << workers, worker_states, status >>
            ELSE /\ workers' = [workers EXCEPT ![w].state = "done"]
                 /\ worker_states' =
                      IF workers[w].mode = EvaluateStep THEN worker_states
                      ELSE [worker_states EXCEPT ![w].fetched = ok,
                                                 ![w].all_finite = finite]
                 /\ status' = IF workers[w].mode = GradientAccumulateStep
                                THEN status
                                ELSE IF ok THEN "ok" ELSE "error"
                 /\ process' = process
  /\ UNCHANGED << config_vars, checkpoint_vars, loss_scaler_, counter_vars,
                  training_data_set_index_, pc, loop_vars, train_cursor,
                  main_run, prepared, eval_vars, callbacks >>

Next ==
  \/ Construct \/ InitializeSession \/ InitializeCheckpointing
  \/ RunWithoutTrainingLoader \/ RegisterCheckpoint \/ SaveCheckpoint
  \/ StartTrainingLoop \/ WhileHead \/ EndOfEpoch \/ SkipShard \/ EnterShard
  \/ BatchHead \/ RunJoin \/ RunWithUpdateLaunch \/ RunWithoutUpdate
  \/ RunWithUpdateJoinAll \/ RunWithUpdateFinish \/ AfterStep \/ NextBatch
  \/ ShardEndJoinAll \/ ShardMove \/ RunReturn \/ UpdateParams \/ EndTraining
  \/ EvaluateBegin \/ EvaluateBatchHead \/ EvaluateJoin \/ EvaluateLaunch
  \/ EvaluateRunOnMainThread \/ MainThreadRunReturns \/ EvaluateWait
  \/ EvaluateBatchDone
  \/ \E w \in DOMAIN workers : SessionRunReturns(w)

Spec == Init /\ [][Next]_vars

(* ------------------------------------------------------------------ *)
(* A checkpoint's properties saved by one runner and loaded by the    *)
(* next one                                                           *)
(* ------------------------------------------------------------------ *)
\* counters a runner of 240 steps with 2 accumulation steps is saved with
CheckpointedRunStates ==
  { [step |-> 0, round |-> 0, weight_update_step |-> 0,
     training_data_set_index |-> 0],
    [step |-> 8, round |-> 0, weight_update_step |-> 4,
     training_data_set_index |-> 12],
    [step |-> 120, round |-> 0, weight_update_step |-> 60,
     training_data_set_index |-> 3],
    [step |-> 10, round |-> 1, weight_update_step |-> 125,
     training_data_set_index |-> 0] }

\* what a damaged or foreign property file holds for a name
DamagedValues ==
  { << >>, << "x" >>, << "1", "x" >>, << " ", "7" >>, << "7", " " >>,
    << "4", "2" >>, << "8", " ", "1" >> }

run_vars ==
  << pipeline_context_, shards, gradient_accumulation_step_count, loop_vars,
     train_cursor, pool_vars, prepared, eval_vars, callbacks, process,
     checkpoint_registry_, checkpoint_loaded, disk, updates >>

CheckpointInit ==
  /\ updates = << >>
  /\ \E mp \in BOOLEAN, ls \in LossScales :
       /\ (~mp => ls = 0)
       /\ params_ =
            [num_train_steps |-> 240, gradient_accumulation_steps |-> 2,
             pipeline_parallel_size |-> 1, use_mixed_precision |-> mp,
             loss_scale |-> ls, use_adasum |-> FALSE,
             fetch_names |-> << "loss" >>,
             has_test_loader |-> FALSE, do_eval |-> FALSE,
             evaluation_period |-> 1, skip_evaluation |-> FALSE,
             eval_batch_size |-> 1, batch_size |-> 1,
             error_function |-> TRUE, post_evaluation_callback |-> TRUE,
             is_perf_test |-> FALSE, display_loss_steps |-> 1,
             model_path |-> DefaultConstructorInput.model_path,
             training_optimizer_name |->
               DefaultConstructorInput.training_optimizer_name,
             weights_to_train |-> {}, weights_not_to_train |-> {},
             deepspeed_zero_stage |-> 0, use_nccl |-> FALSE,
             world_rank |-> 0, checkpoints_dir |-> "",
             checkpoint_period |-> 0, max_num_checkpoints |-> 1,
             checkpoint_to_load_path |-> 0, has_training_loader |-> TRUE]
  /\ ConstructorAccepts(params_)
  /\ loss_scaler_ = InitialLossScaler(params_)
  /\ pipeline_context_ =
       [pipeline_stage_id |-> 0, num_pipeline_batches |-> 0,
        event_names |-> NoPipelineConfig.event_names,
        output_names |-> NoPipelineConfig.output_names,
        feed_names |-> NoPipelineConfig.feed_names,
        fetch_names |-> NoPipelineConfig.fetch_names]
  /\ workers = [w \in {0} |-> [state |-> "idle", mode |-> "none", step |-> 0]]
  /\ worker_states = [w \in {0} |->
                        [feeds |-> NoFeeds, fetch_names |-> << >>,
                         fetched |-> FALSE, all_finite |-> TRUE]]
  /\ shards = << [loaded |-> TRUE, batches |-> 2] >>
  /\ \E rs \in CheckpointedRunStates :
       /\ step_ = rs.step /\ round_ = rs.round
       /\ weight_update_step_count_ = rs.weight_update_step
       /\ training_data_set_index_ = rs.training_data_set_index
  /\ gradient_accumulation_step_count = 0
  /\ pc = "training"
  /\ shard_it = 0 /\ batch = 0 /\ is_weight_update_step = FALSE
  /\ train_cursor = 0 /\ test_cursor = 0
  /\ status = "ok"
  /\ prepared = [feeds |-> NoFeeds, fetch_names |-> << >>]
  /\ main_run = "none"
  /\ batch_idx = 0 /\ eval_return = "none" /\ current_batch = 0
  /\ callbacks = << >>
  /\ process = "running"
  /\ properties = NoProperties
  /\ saved_from = NoSnapshot
  /\ load_status = "none"
  /\ checkpoint_registry_ = NoRegistry
  /\ checkpoint_loaded = 0
  /\ disk = [k \in {} |-> NoProperties]

\* a weight update hands its all-finite flag to the loss scaler
CallUpdateLossScale ==
  /\ pc = "training" /\ loss_scaler_.present
  /\ \E is_all_finite \in BOOLEAN :
       loss_scaler_' = UpdateLossScale(loss_scaler_, is_all_finite)
  /\ UNCHANGED << params_, run_vars, step_, round_, weight_update_step_count_,
                  training_data_set_index_, pc, checkpoint_vars >>

\* SaveCheckpoint: the properties of the runner are written
CallSaveCheckpointProperties ==
  /\ pc = "training"
  /\ properties' = SaveCheckpointProperties
  /\ saved_from' = Snapshot
  /\ load_status' = "none"
  /\ pc' = "saved"
  /\ UNCHANGED << params_, run_vars, loss_scaler_, step_, round_,
                  weight_update_step_count_, training_data_set_index_ >>

\* the property file does not hold what was saved: one name is missing or
\* has another value
DamageProperties ==
  /\ pc = "saved" /\ saved_from.valid
  /\ \E k \in CounterPropertyNames \cup {k_loss_scaler_state} :
       \/ /\ k \in DOMAIN properties
          /\ properties' = [x \in DOMAIN properties \ {k} |-> properties[x]]
       \/ \E v \in DamagedValues :
            properties' = [x \in DOMAIN properties \cup {k} |->
                             IF x = k THEN v ELSE properties[x]]
  /\ saved_from' = NoSnapshot
  /\ UNCHANGED << params_, run_vars, loss_scaler_, step_, round_,
                  weight_update_step_count_, training_data_set_index_, pc,
                  load_status >>

\* the next process constructs its runner and initializes it
ConstructRunner ==
  /\ pc = "saved"
  /\ step_' = 0 /\ round_' = 0 /\ weight_update_step_count_' = 0
  /\ training_data_set_index_' = 0
  /\ loss_scaler_' = InitialLossScaler(params_)
  /\ pc' = "initialize"
  /\ UNCHANGED << params_, run_vars, properties, saved_from, load_status >>

\* Initialize: LoadCheckpoint passes the properties read to
\* LoadCheckpointProperties
CallLoadCheckpointProperties ==
  /\ pc = "initialize"
  /\ LET loaded == LoadCheckpointProperties(properties)
     IN /\ step_' = loaded.step
        /\ round_' = loaded.round
        /\ weight_update_step_count_' = loaded.weight_update_step
        /\ training_data_set_index_' = loaded.training_data_set_index
        /\ loss_scaler_' = loaded.loss_scaler
        /\ load_status' = loaded.status
  /\ pc' = "loaded"
  /\ UNCHANGED << params_, run_vars, properties, saved_from >>

CheckpointNext ==
  \/ CallUpdateLossScale \/ CallSaveCheckpointProperties \/ DamageProperties
  \/ ConstructRunner \/ CallLoadCheckpointProperties

CheckpointSpec == CheckpointInit /\ [][CheckpointNext]_vars

(* ------------------------------------------------------------------ *)
(* Progress: the main thread keeps running and every session run       *)
(* returns                                                             *)
(* ------------------------------------------------------------------ *)
\* runs without evaluation and checkpoints over every layout of the shards
InitShardLayouts ==
  \E n \in 1..MaxTrainSteps, a \in 1..MaxAccum, pps \in 1..MaxStages :
    /\ n % a = 0
    /\ Constructing(Parameters(n, a, pps, FALSE, 0, NoTestLoader, << "loss" >>,
                               DefaultConstructorInput, NoCheckpointing, TRUE),
                    {pps - 1},
                    IF pps > 1 THEN {LossPipelineConfig} ELSE {NoPipelineConfig},
                    ShardLayouts, {})

\* runs of one accumulation cycle that evaluate after every step and save
\* every weight update
InitEvaluateAndSave ==
  \E a \in 1..MaxAccum, pps \in 1..MaxStages :
    Constructing(Parameters(a, a, pps, FALSE, 0, EvalEveryStep, << "loss" >>,
                            DefaultConstructorInput, SaveEveryUpdate, TRUE),
                 {pps - 1},
                 IF pps > 1 THEN {LossPipelineConfig} ELSE {NoPipelineConfig},
                 {OneShard}, {})

ProgressInit ==
  \/ InitShardLayouts
  \/ InitEvaluateAndSave
  \/ InitNoTrainingLoader
  \/ InitUpdateParams

\* a thread that can take a step takes one: the main thread is never
\* suspended for ever, and a session run that was launched returns
ProgressSpec == ProgressInit /\ [][Next]_vars /\ WF_vars(Next)

(* ------------------------------------------------------------------ *)
(* Properties                                                         *)
(* ------------------------------------------------------------------ *)
AllJoined == \A w \in DOMAIN workers : workers[w].state = "idle"

N == params_.num_train_steps
A == params_.gradient_accumulation_steps

\* the constructor and Initialize have returned
Initialized == pc \notin {"construct", "constructed", "checkpointing_init"}

\* C1: with N mod A = 0, when the training loop started from step 0
\* finishes, it has performed exactly N steps: step_ is N, N - N/A of them
\* were gradient accumulations and the other N/A were weight updates; in the
\* first Run of a runner that loaded no checkpoint, weight_update_step_count_
\* has grown from 0 to N/A.
C1_StepCounts ==
  (pc = "loop_ok" /\ checkpoint_loaded = 0 /\ N % A = 0) =>
    /\ step_ = N
    /\ gradient_accumulation_step_count = N - (N \div A)
    /\ round_ = 0 =>
         /\ weight_update_step_count_ = N \div A
         /\ weight_update_step_count_ + gradient_accumulation_step_count = N

\* the loop of 4 steps with 2 accumulation steps has finished
C1_Witness ==
  /\ pc = "loop_ok" /\ N = 4 /\ A = 2
  /\ step_ = 4 /\ weight_update_step_count_ = 2

\* C2: the training step launched when the counter is s is a weight update
\* exactly when (s + 1) mod gradient_accumulation_steps is 0, and a gradient
\* accumulation otherwise.
C2_UpdateIffCycleEnd ==
  [][ (pc = "run_launch" /\ pc' # pc) =>
        LET w == step_ % params_.pipeline_parallel_size IN
          /\ workers'[w].state = "running"
          /\ workers'[w].step = step_
          /\ workers'[w].mode \in {ModelUpdateStep, GradientAccumulateStep}
          /\ (workers'[w].mode = ModelUpdateStep) <=> ((step_ + 1) % A = 0)
    ]_vars

\* an update and an accumulation of a 2-step cycle run at the same time
C2_Witness ==
  /\ A = 2
  /\ \E w, v \in DOMAIN workers :
       /\ workers[w].state = "running" /\ workers[w].mode = ModelUpdateStep
       /\ workers[w].step = 3
       /\ workers[v].mode = GradientAccumulateStep /\ workers[v].step = 2

\* C3: the orchestrator launches into a slot, and overwrites the slot's feed
\* and fetch buffers, only when the slot holds no unjoined execution: a Join
\* of the slot has completed since its previous launch.
C3_JoinBeforeOverwrite ==
  [][ /\ (pc = "run_launch" /\ pc' # pc) =>
           workers[step_ % params_.pipeline_parallel_size].state = "idle"
      /\ (pc = "eval_launch" /\ pc' # pc) => workers[0].state = "idle"
      /\ \A w \in DOMAIN workers :
           ( \/ worker_states'[w].feeds # worker_states[w].feeds
             \/ worker_states'[w].fetch_names # worker_states[w].fetch_names
             \/ workers'[w].step # workers[w].step
             \/ workers'[w].mode # workers[w].mode )
           => workers[w].state = "idle"
    ]_vars

\* a slot is running its second training step
C3_Witness ==
  \E w \in DOMAIN workers :
    /\ workers[w].state = "running"
    /\ workers[w].mode = GradientAccumulateStep
    /\ workers[w].step >= params_.pipeline_parallel_size

\* C4 as claimed: while a weight-update execution is running, no other
\* execution is running on any slot.
C4_UpdateRunsAlone ==
  \A w \in DOMAIN workers :
    (workers[w].state = "running" /\ workers[w].mode = ModelUpdateStep) =>
      /\ main_run = "none"
      /\ \A v \in DOMAIN workers \ {w} : workers[v].state # "running"

\* C4 as amended: while a weight-update execution is running, no evaluation
\* and no other weight update is running; without a pipeline nothing else
\* runs, and with a pipeline the only other running executions are gradient
\* accumulations of the same accumulation cycle on other slots.
C4_UpdateRunsWithItsCycle ==
  \A w \in DOMAIN workers :
    (workers[w].state = "running" /\ workers[w].mode = ModelUpdateStep) =>
      /\ main_run = "none"
      /\ pc = "update_joinall"
      /\ \A v \in DOMAIN workers \ {w} :
           workers[v].state = "running" =>
             /\ params_.pipeline_parallel_size > 1
             /\ workers[v].mode = GradientAccumulateStep
             /\ workers[v].step < workers[w].step
             /\ workers[v].step > workers[w].step - A

\* a weight update runs while an accumulation of its cycle still runs
C4_Witness ==
  \E w, v \in DOMAIN workers :
    /\ workers[w].state = "running" /\ workers[w].mode = ModelUpdateStep
    /\ workers[v].state = "running" /\ workers[v].mode = GradientAccumulateStep

\* C5: RunWithUpdate reads the fetches and returns only after its own
\* execution has completed and every slot has been joined; RunWithoutUpdate
\* returns with its execution launched and not waited for, and the slot's
\* fetches are not there while that execution runs.
C5_UpdateSynchronous ==
  /\ [] ( /\ pc = "update_post" => AllJoined
          /\ (pc = "after_step" /\ is_weight_update_step) => AllJoined
          /\ \A w \in DOMAIN workers :
               (workers[w].state = "running" /\ workers[w].mode # EvaluateStep)
                 => ~worker_states[w].fetched )
  /\ [][ (pc = "run_launch" /\ ~is_weight_update_step /\ pc' # pc) =>
           /\ pc' = "after_step"
           /\ workers'[step_ % params_.pipeline_parallel_size].state = "running"
       ]_vars

\* after a weight update whose fetches were read, RunWithoutUpdate has
\* returned while the execution it launched still runs
C5_Witness ==
  /\ pc = "after_step" /\ ~is_weight_update_step
  /\ weight_update_step_count_ >= 1
  /\ workers[(step_ - 1) % params_.pipeline_parallel_size].state = "running"
  /\ ~worker_states[(step_ - 1) % params_.pipeline_parallel_size].fetched

\* C6 as claimed: the failure of an asynchronous (gradient-accumulation)
\* execution is kept for the orchestrator and raised by the next Join of the
\* slot, so a run ends only by an error the main thread raises or returns,
\* never inside the failing thread.
C6_AsyncErrorRaisedAtJoin ==
  process \in {"running", "thrown", "error_returned"}

\* C7: once an execution has reported a failure, no further execution is
\* launched and step_, weight_update_step_count_, the loss scaler and the
\* callbacks made stay as they are; so a failed weight-update step counts
\* nothing, updates no loss scale and calls nothing back.
C7_ErrorIsFatal ==
  [][ (status = "error" \/ process # "running") =>
        /\ \A w \in DOMAIN workers :
             workers'[w].state = "running" =>
               (workers[w].state = "running" /\ workers'[w].step = workers[w].step)
        /\ main_run' = "running" => main_run = "running"
        /\ step_' = step_
        /\ weight_update_step_count_' = weight_update_step_count_
        /\ gradient_accumulation_step_count' = gradient_accumulation_step_count
        /\ loss_scaler_' = loss_scaler_
        /\ callbacks' = callbacks
    ]_vars

\* the second weight update of a mixed-precision run failed and was thrown
C7_Witness ==
  /\ process = "thrown" /\ status = "error"
  /\ loss_scaler_.present /\ loss_scaler_.is_dynamic
  /\ weight_update_step_count_ = 1
  /\ step_ = (2 * A) - 1

\* C8: wherever the training loader is about to be moved to the next data
\* set (at the end of a shard, or to skip a shard that failed to load) every
\* worker slot has been joined and nothing runs on the main thread.
C8_DrainedBeforeNextDataSet ==
  ( \/ pc = "shard_move"
    \/ (pc = "shard" /\ shard_it < NumShards /\ ~CurrentDataSetLoaded) )
  => (AllJoined /\ main_run = "none")

\* a shard that failed to load is about to be skipped right after a shard
\* that ended in the middle of an accumulation cycle
C8_Witness ==
  /\ pc = "shard" /\ shard_it < NumShards /\ ~CurrentDataSetLoaded
  /\ A = 2 /\ step_ = 1 /\ gradient_accumulation_step_count = 1
  /\ workers[0].mode = GradientAccumulateStep

\* C9 as claimed: whenever an evaluation execution is about to start, every
\* worker slot has been joined.
C9_EvaluationAfterDrain ==
  pc \in {"eval_launch", "eval_run"} => AllJoined

\* C9 as amended: when an evaluation execution is about to start, no
\* weight-update execution is in flight; without a pipeline every slot has
\* been joined; with a pipeline every slot has been joined when the
\* evaluation follows a weight-update step or is made by EndTraining, and
\* otherwise only gradient accumulations may be unjoined.
C9_EvaluationNeverDuringUpdate ==
  /\ pc = "eval_launch" => AllJoined
  /\ pc \in {"eval_run", "eval_running"} =>
       /\ params_.pipeline_parallel_size > 1
       /\ \A w \in DOMAIN workers :
            workers[w].state # "idle" => workers[w].mode = GradientAccumulateStep
       /\ (eval_return = "ended" \/ is_weight_update_step) => AllJoined
  /\ (\E w \in DOMAIN workers :
        workers[w].state = "running" /\ workers[w].mode = EvaluateStep)
       => (params_.pipeline_parallel_size = 1 /\ pc = "eval_wait")

\* with a pipeline, an evaluation is about to run on the main thread while
\* the accumulation launched by the step before it is still running
C9_Witness ==
  /\ pc = "eval_run" /\ params_.pipeline_parallel_size = 2
  /\ ~is_weight_update_step /\ eval_return = "checkpoint"
  /\ workers[0].state = "running"
  /\ workers[0].mode = GradientAccumulateStep

\* C10: the feeds of every evaluation run hold, for each event tensor with a
\* non-empty name, the id -1, whatever the step and the stage.
C10_EvaluationEventsDisabled ==
  pc \in {"eval_join", "eval_launch", "eval_wait", "eval_run", "eval_running"} =>
    /\ pipeline_context_.event_names \subseteq DOMAIN prepared.feeds
    /\ \A k \in pipeline_context_.event_names : prepared.feeds[k] = -1

\* an evaluation runs on the last stage after a training step, with all
\* eight event tensors fed
C10_Witness ==
  /\ pc = "eval_running" /\ main_run = "running"
  /\ pipeline_context_.event_names = EventKindSet
  /\ pipeline_context_.pipeline_stage_id = 1
  /\ step_ = 1
  /\ \A k \in EventKindSet : prepared.feeds[k] = -1

UpdatePcs == {"run_join", "run_launch", "update_joinall", "update_post"}
EvalRunPcs ==
  {"eval_join", "eval_launch", "eval_wait", "eval_run", "eval_running",
   "eval_ran"}
TrainingModes == {ModelUpdateStep, GradientAccumulateStep}
Stage == pipeline_context_.pipeline_stage_id

\* C11: the id a training step feeds for each event kind is the schedule's id
\* for (this stage, step mod num_pipeline_batches); so two training steps of
\* the stage whose counters are equal mod num_pipeline_batches are fed the
\* same id for every kind.
C11_EventIdsFromSchedule ==
  params_.pipeline_parallel_size > 1 =>
    /\ \A w \in DOMAIN workers :
         workers[w].mode \in TrainingModes =>
           /\ pipeline_context_.event_names \subseteq DOMAIN worker_states[w].feeds
           /\ \A k \in pipeline_context_.event_names :
                worker_states[w].feeds[k] =
                  ScheduleEventId(k, Stage,
                    workers[w].step % pipeline_context_.num_pipeline_batches)
    /\ \A w, v \in DOMAIN workers :
         ( /\ workers[w].mode \in TrainingModes
           /\ workers[v].mode \in TrainingModes
           /\ workers[w].step % pipeline_context_.num_pipeline_batches
                = workers[v].step % pipeline_context_.num_pipeline_batches )
         => \A k \in pipeline_context_.event_names :
              worker_states[w].feeds[k] = worker_states[v].feeds[k]

\* steps 3 and 2 of a 2-step cycle went to the two slots of stage 1: step 3
\* was fed the ids of micro-batch slot 1 and step 2, like step 0 before it,
\* those of micro-batch slot 0
C11_Witness ==
  /\ params_.pipeline_parallel_size = 2 /\ A = 2 /\ Stage = 1
  /\ pipeline_context_.event_names = EventKindSet
  /\ workers[1].mode = ModelUpdateStep /\ workers[1].step = 3
  /\ workers[0].mode = GradientAccumulateStep /\ workers[0].step = 2
  /\ \A k \in EventKindSet :
       /\ worker_states[1].feeds[k] = ScheduleEventId(k, 1, 1)
       /\ worker_states[0].feeds[k] = ScheduleEventId(k, 1, 0)
       /\ worker_states[1].feeds[k] # worker_states[0].feeds[k]

\* C12 as claimed: on every weight-update step with mixed precision, with or
\* without a pipeline, the all-finite flag of the gradients is among the
\* fetched names, and the step hands its value to UpdateLossScale.
C12_OverflowFlagFetched ==
  /\ [] ( ( /\ pc \in UpdatePcs /\ is_weight_update_step
            /\ params_.use_mixed_precision )
          => opt_graph_outputs_.GradientAllIsFinite
               \in SeqToSet(prepared.fetch_names) )
  /\ [][ ( /\ pc = "update_post" /\ pc' = "after_step"
           /\ params_.use_mixed_precision )
         => loss_scaler_' =
              UpdateLossScale(loss_scaler_, worker_states[WorkerId].all_finite)
     ]_vars

\* C13: once the runner is initialized, the loss scaler changes only in the
\* weight-update step, after the
\* step's execution was joined and succeeded and while nothing is in flight,
\* and together with the one increment of weight_update_step_count_; no
\* accumulation step and no evaluation changes it.
C13_ScalerUpdatedOnlyAfterJoinedUpdate ==
  [][ (Initialized /\ loss_scaler_' # loss_scaler_) =>
        /\ pc = "update_post" /\ pc' = "after_step"
        /\ is_weight_update_step
        /\ status = "ok"
        /\ main_run = "none"
        /\ \A w \in DOMAIN workers : workers[w].state = "idle"
        /\ workers[WorkerId].mode = ModelUpdateStep
        /\ workers[WorkerId].step = step_
        /\ worker_states[WorkerId].fetched
        /\ weight_update_step_count_' = weight_update_step_count_ + 1
        /\ step_' = step_ + 1
    ]_vars

\* the first weight update reported an overflow and the scale was halved
C13_Witness ==
  /\ pc = "after_step" /\ is_weight_update_step
  /\ weight_update_step_count_ = 1
  /\ loss_scaler_.is_dynamic /\ loss_scaler_.loss_scale = 32768
  /\ ~worker_states[(step_ - 1) % params_.pipeline_parallel_size].all_finite

\* C15: an evaluation run that is fed the loss-scale tensor is fed 1,
\* whatever the scaler's scale, and no step of Evaluate changes the scaler.
C15_EvaluationBypassesScaler ==
  /\ [] ( pc \in EvalRunPcs =>
            /\ (loss_scaler_.present /\ FeedAllowed(LossScaleInputName))
                 => LossScaleInputName \in DOMAIN prepared.feeds
            /\ LossScaleInputName \in DOMAIN prepared.feeds
                 => prepared.feeds[LossScaleInputName] = 1 )
  /\ [][ ( pc \in (EvalRunPcs \cup {"evaluate", "eval_batch"})
           => (loss_scaler_' = loss_scaler_) ) ]_vars

\* an evaluation runs with loss scale 1 while the scaler stands at 32768
C15_Witness ==
  /\ pc = "eval_wait" /\ workers[0].state = "running"
  /\ workers[0].mode = EvaluateStep
  /\ loss_scaler_.present /\ loss_scaler_.loss_scale = 32768
  /\ prepared.feeds[LossScaleInputName] = 1

\* C16: a gradient-accumulation step fetches exactly the gradient
\* accumulation output followed by the pipeline event outputs whose names
\* are not empty; it fetches no user-declared output and no all-finite flag.
C16_AccumulationFetches ==
  \A w \in DOMAIN workers :
    workers[w].mode = GradientAccumulateStep =>
      /\ worker_states[w].fetch_names =
           << opt_graph_outputs_.GradientAccumulation >>
             \o pipeline_context_.output_names
      /\ SeqToSet(worker_states[w].fetch_names)
           \cap SeqToSet(params_.fetch_names) = {}
      /\ opt_graph_outputs_.GradientAllIsFinite
           \notin SeqToSet(worker_states[w].fetch_names)
      /\ opt_graph_outputs_.DeltaAllIsFinite
           \notin SeqToSet(worker_states[w].fetch_names)

\* an accumulation runs on a stage with two of the four event outputs
C16_Witness ==
  \E w \in DOMAIN workers :
    /\ workers[w].state = "running" /\ workers[w].mode = GradientAccumulateStep
    /\ params_.pipeline_parallel_size = 2
    /\ worker_states[w].fetch_names =
         << "grad_accum", "forward_record_output", "backward_wait_output" >>

\* C17: with a pipeline, every name fetched by a weight-update step or by an
\* evaluation is one of the stage's allowed fetch names, and a user-declared
\* output is fetched exactly when the stage allows it.
C17_FetchesWithinStage ==
  ( /\ params_.pipeline_parallel_size > 1
    /\ \/ (pc \in UpdatePcs /\ is_weight_update_step)
       \/ pc \in EvalRunPcs )
  => /\ SeqToSet(prepared.fetch_names)
          \subseteq SeqToSet(pipeline_context_.fetch_names)
     /\ \A n \in SeqToSet(params_.fetch_names) :
          n \in SeqToSet(prepared.fetch_names)
            <=> n \in SeqToSet(pipeline_context_.fetch_names)

\* a weight update on stage 0, which does not produce the loss, fetches the
\* stage's own output and not the loss
C17_Witness ==
  /\ params_.pipeline_parallel_size = 2 /\ Stage = 0
  /\ pc = "update_joinall" /\ is_weight_update_step
  /\ "loss" \notin SeqToSet(pipeline_context_.fetch_names)
  /\ workers[WorkerId].state = "running"
  /\ worker_states[WorkerId].fetch_names = << "grad_accum" >>

\* C18: params_.error_function is called only on the last pipeline stage (the
\* only stage without a pipeline), and only by a weight-update step that
\* succeeded or by Evaluate after a test batch; an intermediate stage and an
\* accumulation step never call it.
C18_ErrorCallbackOnLastStage ==
  /\ [] ( (\E i \in 1..Len(callbacks) : callbacks[i].fn = "error_function")
            => Stage = params_.pipeline_parallel_size - 1 )
  /\ [][ \A i \in (Len(callbacks) + 1)..Len(callbacks') :
           callbacks'[i].fn = "error_function" =>
             /\ Stage = params_.pipeline_parallel_size - 1
             /\ \/ /\ pc = "update_post" /\ is_weight_update_step
                   /\ status = "ok" /\ callbacks'[i].tag = "train"
                \/ /\ pc = "eval_ran" /\ status = "ok"
                   /\ callbacks'[i].tag = "test"
     ]_vars

\* the last stage of a 2-stage pipeline has called the error function from
\* a weight update and from an evaluation
C18_Witness ==
  /\ params_.pipeline_parallel_size = 2 /\ Stage = 1
  /\ \E i, j \in 1..Len(callbacks) :
       /\ callbacks[i] = [fn |-> "error_function", tag |-> "train"]
       /\ callbacks[j] = [fn |-> "error_function", tag |-> "test"]

\* a text that operator>> reads as one unsigned number up to its end
IsNumber(s) ==
  \E i \in 0..(Len(s) - 1) :
    /\ \A j \in 1..i : s[j] = " "
    /\ \A j \in (i + 1)..Len(s) : s[j] \in DigitSet

\* a text that holds a scale and a count
IsScalerState(s) ==
  \E i \in 1..(Len(s) - 1) :
    /\ IsNumber(SubSeq(s, 1, i))
    /\ s[i + 1] = " "
    /\ IsNumber(SubSeq(s, i + 1, Len(s)))

C19_CheckpointRoundTrip ==
  (pc = "loaded" /\ saved_from.valid) =>
    /\ load_status = "ok"
    /\ step_ = saved_from.step
    /\ round_ = saved_from.round
    /\ weight_update_step_count_ = saved_from.weight_update_step
    /\ training_data_set_index_ = saved_from.training_data_set_index
    /\ loss_scaler_.present =>
         /\ loss_scaler_.loss_scale = saved_from.loss_scale
         /\ loss_scaler_.stable_steps = saved_from.stable_steps

\* a new runner has loaded what was saved at step 120 with the dynamic scale
\* at 16384 after one step without overflow
C19_Witness ==
  /\ pc = "loaded" /\ saved_from.valid /\ load_status = "ok"
  /\ step_ = 120 /\ weight_update_step_count_ = 60
  /\ training_data_set_index_ = 3
  /\ loss_scaler_.is_dynamic
  /\ loss_scaler_.loss_scale = 16384 /\ loss_scaler_.stable_steps = 1
  /\ properties[k_step] = << "1", "2", "0" >>

\* C20: LoadCheckpointProperties returns OK exactly when step, round,
\* weight_update_step and training_data_set_index are all present and each
\* is a number up to its end, and, when there is a loss scaler,
\* loss_scaler_state is present and valid; otherwise it returns an error.
C20_LoadFailsOnMissingOrUnparsable ==
  pc = "loaded" =>
    /\ load_status \in {"ok", "error"}
    /\ load_status = "ok" <=>
         /\ \A k \in CounterPropertyNames :
              k \in DOMAIN properties /\ IsNumber(properties[k])
         /\ loss_scaler_.present =>
              /\ k_loss_scaler_state \in DOMAIN properties
              /\ IsScalerState(properties[k_loss_scaler_state])

\* the load of properties whose weight_update_step is followed by a letter
\* has returned an error
C20_Witness ==
  /\ pc = "loaded" /\ load_status = "error"
  /\ CounterPropertyNames \subseteq DOMAIN properties
  /\ properties[k_weight_update_step] = << "1", "x" >>
  /\ IsNumber(properties[k_step]) /\ IsNumber(properties[k_round])

C22_OnlyRankZeroAtPeriod ==
  [][ (Initialized
         /\ (checkpoint_registry_' # checkpoint_registry_ \/ disk' # disk)) =>
        /\ params_.world_rank = 0
        /\ checkpoint_registry_.present
        /\ params_.checkpoint_period > 0
        /\ pc \in {"checkpoint", "save_checkpoint"}
        /\ is_weight_update_step
        /\ weight_update_step_count_ > 0
        /\ weight_update_step_count_ % params_.checkpoint_period = 0
    ]_vars

\* with a period of 2 the first checkpoint was written after the second
\* weight update, and none after the first
C22_Witness ==
  /\ params_.world_rank = 0 /\ params_.checkpoint_period = 2
  /\ pc = "checkpoint_saved"
  /\ weight_update_step_count_ = 2
  /\ checkpoint_registry_.checkpoints = << 2 >>
  /\ DOMAIN disk = {2}

\* C23: when the directory of the evicted checkpoint is still on the disk
\* after the deletion, the registry holds what AddCheckpoint left, as after a
\* successful deletion, nothing else on the disk changed, no error is
\* returned and the loop goes on to write the new checkpoint; a written
\* checkpoint is complete on the disk whatever else the disk holds.
C23_FailedDeleteOnlyLogged ==
  /\ [][ ( /\ pc = "checkpoint" /\ CheckpointDue
           /\ AddCheckpointStatus(checkpoint_registry_,
                                  weight_update_step_count_) = "ok"
           /\ AddCheckpoint(checkpoint_registry_, weight_update_step_count_)
                .should_remove_old_checkpoint
           /\ AddCheckpoint(checkpoint_registry_, weight_update_step_count_)
                .old_checkpoint_path \in DOMAIN disk'
           /\ pc' # pc \/ process' # process ) =>
           /\ checkpoint_registry_' =
                AddCheckpoint(checkpoint_registry_, weight_update_step_count_)
                  .registry
           /\ disk' = disk
           /\ pc' = "save_checkpoint"
           /\ process' = "running"
       ]_vars
  /\ [](pc = "checkpoint_saved" =>
          /\ process = "running"
          /\ weight_update_step_count_ \in DOMAIN disk
          /\ disk[weight_update_step_count_].complete)

\* with room for one checkpoint, the directory of step 1 could not be deleted
\* at the second save; the run went on and wrote the checkpoints of steps 2
\* and 3, and the registry holds step 3 only
C23_Witness ==
  /\ params_.max_num_checkpoints = 1
  /\ pc = "checkpoint_saved"
  /\ weight_update_step_count_ = 3
  /\ checkpoint_registry_.checkpoints = << 3 >>
  /\ 1 \in DOMAIN disk
  /\ 3 \in DOMAIN disk /\ disk[3].complete

\* C24 as claimed: when Initialize has returned OK, the checkpoint loaded is
\* the explicitly configured one whenever a path is configured; otherwise it
\* is the latest checkpoint of the checkpoints directory if there is one;
\* otherwise none is loaded and step_, round_, weight_update_step_count_ and
\* training_data_set_index_ are all 0.
C24_RequestedElseLatestLoaded ==
  pc = "start" =>
    IF params_.checkpoint_to_load_path # 0
      THEN checkpoint_loaded = params_.checkpoint_to_load_path
      ELSE IF params_.checkpoints_dir # "" /\ DOMAIN disk # {}
        THEN /\ checkpoint_loaded \in DOMAIN disk
             /\ \A k \in DOMAIN disk : k <= checkpoint_loaded
        ELSE /\ checkpoint_loaded = 0
             /\ step_ = 0 /\ round_ = 0 /\ weight_update_step_count_ = 0
             /\ training_data_set_index_ = 0

\* the configurations C25 names as invalid
InvalidConfiguration ==
  \/ params_.num_train_steps % params_.gradient_accumulation_steps # 0
  \/ (params_.deepspeed_zero_stage # 0 /\ ~params_.use_nccl)
  \/ params_.model_path = ""
  \/ params_.training_optimizer_name = ""
  \/ (params_.weights_to_train # {} /\ params_.weights_not_to_train # {})

\* C25: with num_train_steps not a multiple of gradient_accumulation_steps,
\* a ZeRO stage other than 0 without NCCL, an empty model path or optimizer
\* name, or both weights_to_train and weights_not_to_train non-empty, the
\* constructor fails: the only step taken from the constructor's entry is
\* its throw, the runner never leaves the constructor, and nothing is
\* initialized, launched or counted.
C25_InvalidRejectedAtConstruction ==
  /\ []((InvalidConfiguration /\ round_ = 0) =>
          /\ pc = "construct"
          /\ process \in {"running", "construct_thrown"}
          /\ step_ = 0 /\ weight_update_step_count_ = 0
          /\ ~loss_scaler_.present /\ ~checkpoint_registry_.present
          /\ main_run = "none"
          /\ \A w \in DOMAIN workers : workers[w].state = "idle")
  /\ [][ (pc = "construct" /\ InvalidConfiguration) =>
           (process' = "construct_thrown" /\ pc' = "construct") ]_vars
  /\ [][ (pc = "construct" /\ pc' # "construct") => ~InvalidConfiguration ]_vars

\* 3 training steps with 2 accumulation steps: the constructor threw
C25_Witness ==
  /\ process = "construct_thrown" /\ pc = "construct"
  /\ params_.num_train_steps = 3 /\ params_.gradient_accumulation_steps = 2
  /\ params_.model_path # "" /\ params_.training_optimizer_name # ""

\* C26: when the current training shard failed to load, the loop's next step
\* skips it: no execution is launched, step_, weight_update_step_count_ and
\* the accumulation count stay, no error ends the run, the loader moves to
\* the next shard and the shard loop goes on; and a training step is only
\* ever prepared and launched on a shard that loaded.
C26_FailedShardSkipped ==
  /\ [][ (pc = "shard" /\ shard_it < NumShards /\ ~CurrentDataSetLoaded) =>
           /\ step_' = step_
           /\ weight_update_step_count_' = weight_update_step_count_
           /\ gradient_accumulation_step_count' = gradient_accumulation_step_count
           /\ workers' = workers /\ main_run' = main_run
           /\ status' = status /\ process' = "running"
           /\ train_cursor' = MoveToNextDataSet(train_cursor, NumShards)
           /\ pc' = "shard" /\ shard_it' = shard_it + 1
       ]_vars
  /\ [](pc \in {"run_join", "run_launch"} => CurrentDataSetLoaded)

\* the first of two shards failed to load; the run skipped it and has taken
\* its first step on the second shard
C26_Witness ==
  /\ NumShards = 2 /\ ~shards[1].loaded /\ shards[2].loaded
  /\ training_data_set_index_ = 1 /\ train_cursor = 1
  /\ pc = "after_step" /\ step_ = 1
  /\ process = "running"

\* C27 as claimed: across training steps, evaluations, checkpoint saves and
\* completed Run calls, none of step_, round_ and weight_update_step_count_
\* ever decreases.
C27_CountersNeverDecrease ==
  [][ /\ step_' >= step_
      /\ round_' >= round_
      /\ weight_update_step_count_' >= weight_update_step_count_
    ]_vars

\* C27, amended: round_ and weight_update_step_count_ never decrease; step_
\* never decreases inside a training loop, and the one step that lowers it is
\* the return of a successful Run, which sets it to 0 and increments round_.
C27_CountersAdvanceUpToRunReset ==
  [][ /\ round_' >= round_
      /\ weight_update_step_count_' >= weight_update_step_count_
      /\ \/ step_' >= step_
         \/ /\ pc = "loop_ok" /\ pc' = "run_done"
            /\ step_' = 0 /\ round_' = round_ + 1
    ]_vars

\* a Run of 4 steps has completed: step_ went from 4 back to 0, round_ is 1
\* and the two weight updates stay counted
C27_Witness ==
  /\ pc = "run_done" /\ params_.num_train_steps = 4
  /\ params_.gradient_accumulation_steps = 2
  /\ step_ = 0 /\ round_ = 1 /\ weight_update_step_count_ = 2

\* the slots that hold an execution that was launched and not yet joined
Unjoined == { w \in DOMAIN workers : workers[w].state # "idle" }

\* C28: the slots are 0 .. pipeline_parallel_size - 1; the unjoined training
\* execution of a slot w was launched at a step counter s with
\* s mod pipeline_parallel_size = w; a training step is launched into the
\* slot of its counter only, which then holds no unjoined execution, and no
\* other slot changes; so a slot never holds two unjoined executions and at
\* most pipeline_parallel_size executions are in flight.
C28_SlotOfStep ==
  /\ [](/\ DOMAIN workers = 0..(params_.pipeline_parallel_size - 1)
        /\ Cardinality(Unjoined) <= params_.pipeline_parallel_size
        /\ \A w \in Unjoined :
             workers[w].mode \in {ModelUpdateStep, GradientAccumulateStep} =>
               workers[w].step % params_.pipeline_parallel_size = w)
  /\ [][ (pc = "run_launch" /\ pc' # pc) =>
           /\ workers[step_ % params_.pipeline_parallel_size].state = "idle"
           /\ workers'[step_ % params_.pipeline_parallel_size].state = "running"
           /\ workers'[step_ % params_.pipeline_parallel_size].step = step_
           /\ \A w \in DOMAIN workers :
                w # step_ % params_.pipeline_parallel_size =>
                  workers'[w] = workers[w]
       ]_vars

\* two stages: the accumulation of step 2 runs on slot 0 while the update of
\* step 3 runs on slot 1
C28_Witness ==
  /\ params_.pipeline_parallel_size = 2
  /\ workers[0].state = "running" /\ workers[0].step = 2
  /\ workers[1].state = "running" /\ workers[1].step = 3
  /\ workers[0].mode = GradientAccumulateStep
  /\ workers[1].mode = ModelUpdateStep

\* C29: once the runner is initialized, round_ changes and step_ is lowered
\* only by the return of Run after a training loop that ended without error,
\* which increments round_ by one and sets step_ to 0; a Run without a
\* training data loader returns OK and changes no counter; and a step that
\* ends the run with an error changes neither round_ nor step_.
C29_RunCountsSuccessfulLoopOnly ==
  /\ [][ (Initialized /\ (round_' # round_ \/ step_' < step_)) =>
           /\ pc = "loop_ok" /\ pc' = "run_done"
           /\ process = "running" /\ process' = "running"
           /\ step_ >= params_.num_train_steps
           /\ round_' = round_ + 1 /\ step_' = 0
       ]_vars
  /\ [][ (pc = "start" /\ ~params_.has_training_loader) =>
           /\ pc' = "run_done" /\ process' = "running"
           /\ step_' = step_ /\ round_' = round_
           /\ weight_update_step_count_' = weight_update_step_count_
           /\ training_data_set_index_' = training_data_set_index_
       ]_vars
  /\ [][ (process # "running" \/ process' # "running") =>
           (round_' = round_ /\ step_' = step_) ]_vars

\* the checkpoint after the last step of the loop could not be written: the
\* loop returned the error, round_ is still 0 and step_ is still N
C29_Witness ==
  /\ process = "error_returned" /\ pc = "save_checkpoint"
  /\ params_.num_train_steps = 2 /\ step_ = 2 /\ round_ = 0

\* C30 as claimed: the fetch list prepared for a weight-update, an
\* accumulation or an evaluation run is never empty, with and without a
\* pipeline and also when the user gave no fetch name.
C30_FetchListNeverEmpty ==
  [][ prepared' # prepared => prepared'.fetch_names # << >> ]_vars

\* C31 as claimed: the data tensors fed to an evaluation execution are those
\* of the test batch at the cursor current_batch; and after every evaluated
\* batch the cursor advances by one, or at the shard's batch count returns
\* to 0 while the test loader moves to the next shard.
C31_EvaluationFeedsCursorBatch ==
  /\ [][ (pc = "eval_batch" /\ pc' \in {"eval_join", "eval_run"}) =>
           \A n \in DOMAIN prepared'.feeds :
             n \in SeqToSet(DataSetTensorNames) =>
               prepared'.feeds[n] = current_batch
       ]_vars
  /\ [][ (pc = "eval_ran" /\ pc' = "eval_batch") =>
           IF current_batch + 1 >= TestTotalBatch(test_cursor)
             THEN /\ current_batch' = 0
                  /\ test_cursor' = (test_cursor + 1) % Len(TestShards)
             ELSE /\ current_batch' = current_batch + 1
                  /\ test_cursor' = test_cursor
       ]_vars

\* C33 as claimed: when LoadCheckpointProperties returns an error, step,
\* round, weight_update_step_count, training_data_set_index and the state of
\* the loss scaler are what they were before the call.
C33_FailedLoadChangesNothing ==
  [][ (pc = "initialize" /\ pc' = "loaded" /\ load_status' = "error") =>
        /\ step_' = step_
        /\ round_' = round_
        /\ weight_update_step_count_' = weight_update_step_count_
        /\ training_data_set_index_' = training_data_set_index_
        /\ loss_scaler_' = loss_scaler_
    ]_vars

\* C36 as claimed: with max_num_checkpoints >= 1, once a checkpoint save of
\* this run has completed, a completely written checkpoint exists on disk at
\* every later point of the run.
C36_CompleteCheckpointAlwaysOnDisk ==
  (/\ params_.max_num_checkpoints >= 1
   /\ saved_from.valid)
    => \E k \in DOMAIN disk : disk[k].complete

\* the step saved in the checkpoint this runner was resumed from
ResumedStep ==
  FromString(PriorProperties(params_, checkpoint_loaded)[k_step]).value

\* the steps a run resumed at ResumedStep still has to perform
RemainingSteps ==
  IF N > ResumedStep THEN N - ResumedStep ELSE 0

\* C38: a runner resumed from a checkpoint whose saved step is S enters its
\* training loop with step_ = S; inside the loop step_ only changes by one
\* step at a time; the loop returns with step_ = S + max(0, N - S), that is
\* after exactly max(0, N - S) steps; and every checkpoint the loop writes
\* records a step that is a multiple of gradient_accumulation_steps.
C38_ResumedRunPerformsRemainingSteps ==
  /\ []((checkpoint_loaded # 0 /\ pc = "start" /\ round_ = 0) =>
          step_ = ResumedStep)
  /\ []((checkpoint_loaded # 0 /\ pc = "loop_ok" /\ round_ = 0) =>
          step_ = ResumedStep + RemainingSteps)
  /\ [][ (Initialized /\ step_' # step_ /\ pc' # "run_done") =>
           step_' = step_ + 1 ]_vars
  /\ [][ (pc = "save_checkpoint" /\ pc' = "checkpoint_saved") =>
           /\ new_checkpoint_path \in DOMAIN disk'
           /\ disk'[new_checkpoint_path].complete
           /\ FromString(disk'[new_checkpoint_path].properties[k_step]).value
                % A = 0
       ]_vars

\* a run resumed at step 2 of 4 has returned from its loop after two further
\* steps and has written a checkpoint that records step 4
C38_Witness ==
  /\ checkpoint_loaded = 1 /\ pc = "loop_ok" /\ A = 2 /\ N = 4
  /\ step_ = 4 /\ 2 \in DOMAIN disk /\ disk[2].complete
  /\ FromString(disk[2].properties[k_step]).value = 4

\* C39: whenever SaveCheckpoint is about to read the session's state tensors
\* and the run counters, and when it has written them, no worker slot holds
\* an execution that was launched and not joined, and no execution runs on
\* the main thread.
C39_CheckpointCapturedWhenQuiescent ==
  /\ [](pc \in {"save_checkpoint", "checkpoint_saved"} =>
          (AllJoined /\ Unjoined = {} /\ main_run = "none"))
  /\ [][ (pc = "save_checkpoint" /\ pc' = "checkpoint_saved") =>
           (workers' = workers /\ AllJoined) ]_vars

\* a checkpoint was saved in a pipelined run with two accumulation steps per
\* update, after the evaluation that follows the weight update
C39_Witness ==
  /\ pc = "checkpoint_saved" /\ params_.pipeline_parallel_size = 2
  /\ A = 2 /\ params_.has_test_loader /\ step_ = 2
  /\ 1 \in DOMAIN disk /\ disk[1].complete

\* C32 as claimed: whenever TrainingLoop has returned, with success or with
\* an error status, every worker slot has been joined.
C32_AllJoinedWhenLoopReturns ==
  (\/ pc \in {"loop_ok", "loop_error"}
   \/ process = "error_returned")
    => AllJoined

\* C34 as claimed: whenever Run starts, also after UpdateParams calls,
\* num_train_steps is a multiple of gradient_accumulation_steps.
C34_StepsMultipleOfAccumulationAtRun ==
  pc = "start" => N % A = 0

\* C35 as claimed: in a pipelined run num_pipeline_batches equals
\* gradient_accumulation_steps, also after UpdateParams; so a weight-update
\* step is prepared with micro-batch slot num_pipeline_batches - 1 and an
\* accumulation step with a smaller slot.
C35_MicroBatchCountIsAccumulationSteps ==
  /\ []((Initialized /\ params_.pipeline_parallel_size > 1) =>
          pipeline_context_.num_pipeline_batches = A)
  /\ [][ (/\ params_.pipeline_parallel_size > 1
          /\ pc = "batch" /\ pc' = "run_join") =>
           LET slot == step_ % pipeline_context_.num_pipeline_batches
           IN IF is_weight_update_step'
                THEN slot = pipeline_context_.num_pipeline_batches - 1
                ELSE slot < pipeline_context_.num_pipeline_batches - 1
       ]_vars

\* a shard of the training data that loads and holds at least one batch
HasLoadableShard ==
  \E i \in 1..Len(shards) : shards[i].loaded /\ shards[i].batches >= 1

\* TrainingLoop returned an error, or an execution threw
LoopFailed == process # "running" \/ pc = "loop_error"

\* C37: when every launched execution returns and a shard of the training
\* data loads with at least one batch, a training loop that was started
\* leaves its while loop with step_ >= num_train_steps (step_ =
\* num_train_steps unless the runner was resumed beyond it), also when other
\* shards fail to load, unless an error ends the loop before.
C37_TrainingLoopTerminates ==
  (pc = "while" /\ HasLoadableShard) ~>
    \/ /\ pc = "loop_ok" /\ step_ >= N
       /\ (checkpoint_loaded = 0 => step_ = N)
    \/ LoopFailed

\* the loop of 4 steps has returned although the first of the two shards
\* failed to load
C37_Witness ==
  /\ pc = "loop_ok" /\ step_ = 4 /\ N = 4 /\ process = "running"
  /\ Len(shards) = 2 /\ ~shards[1].loaded /\ shards[2].loaded

====
